---- MODULE Spec2Model ----
(***************************************************************************)
(* Scraping core of x-comment-monitor: the progress store                  *)
(* (scrapeProgressStore.ts), the single-post harvester                     *)
(* scrapeRepliesByTweetId and the account harvester scrapeUserComments     *)
(* (twitterScraper.ts), the Apify reply client scrapeTweetRepliesViaApify  *)
(* and the two entry points scrapeByTweetId and smartFetch (routers.ts).   *)
(*                                                                         *)
(* Three specifications share the variables:                               *)
(*   SpecProgress  arbitrary writes, reads and clears on the progress map  *)
(*   Spec          one run of the entry point scrapeByTweetId              *)
(*   SpecSmart     one run of the entry point smartFetch                   *)
(* An asynchronous function is a process; one action is the code between   *)
(* two awaits.  The page (DOM) and the remote API are inputs: every        *)
(* action that reads them draws what it sees from a small set.             *)
(***************************************************************************)
EXTENDS Integers, Sequences, FiniteSets, TLC

\* ---------------------------------------------------------------- bounds
MaxId == 3              \* status ids are 1..MaxId
MaxAnchors == 2         \* status links inside one post card
MaxFound == 3           \* repliesFound values a writer of SpecProgress reports
MaxItems == 2           \* items in the dataset of the reply client
MaxAccountItems == 1    \* reply items the account API path receives in one run
MaxExpandClicks == 1    \* expansion buttons the page offers during one run
MaxRoots == 1           \* root posts the account harvester collects
MaxPageRows == 3        \* rows of the page grid on which headings and post cards lie
MaxAccounts == 3        \* credentials the ring holds, and the length of a list given to it
MaxStoreRows == 1       \* rows of the raw comment store under arbitrary writers
MaxClock == 1           \* instants the clock reaches
MaxLaunches == 2        \* browser processes launched in one behaviour

NoId == 0
Ids == 1..MaxId
\* The ids a run is asked for.  Ids are opaque: the code only compares them
\* and picks anchors by position, so one requested id stands for all.
TweetIds == {1}

\* ------------------------------------------------- progress store (part_006)
Stages == {"init", "loading", "fetching_tweets", "fetching_replies", "complete", "error"}

\* Map entry of a key that was never written or was cleared (Map.get -> undefined).
NoProgress == [stage |-> "none", message |-> "", repliesFound |-> 0, ref |-> "copy"]

\* A ScrapeProgress object; ref tells whether the stored object is the
\* harvester's own live `progress` object ("hv") or another object ("copy").
Progress(stage, message, found) ==
    [stage |-> stage, message |-> message, repliesFound |-> found, ref |-> "copy"]

\* setScrapeProgress without the guard: the new object always replaces the old.
setScrapeProgressNoKeep(prev, p) == p

\* setScrapeProgress: the value stored for the key after writing p over prev.
\* A smaller repliesFound is replaced by the stored one in a copy of p.
setScrapeProgress(prev, p) ==
    IF prev.stage # "none" /\ p.repliesFound < prev.repliesFound
    THEN [p EXCEPT !.repliesFound = prev.repliesFound, !.ref = "copy"]
    ELSE p

\* getScrapeProgress: the stored record, or "none" for null.
getScrapeProgress(store, k) == store[k]

\* clearScrapeProgress: Map.delete.
clearScrapeProgress(store, k) == [store EXCEPT ![k] = NoProgress]

\* Progress keys: the key of the single-post run, and a user name.
TweetKey == "tweet"
UserKey == "user"
Keys == {TweetKey, UserKey}

\* ------------------------------------------------ raw comment store (part_005)
\* An InsertRawComment value as the callers build it.
\* Texts stand for a plain text, a text that ends with a canonical media
\* placeholder tag, and one that ends with a mis-encoded tag.
PlainText == "hi"
TaggedText == "hi[media]"
CorruptedText == "hi[corrupted]"
Texts == {PlainText, TaggedText, CorruptedText}
NoLike == 0 - 1     \* an InsertRawComment without likeCount

Comment(replyId, tweetId, replyTo, text, createdAt, likeCount) ==
    [replyId |-> replyId, tweetId |-> tweetId, replyTo |-> replyTo,
     text |-> text, createdAt |-> createdAt, likeCount |-> likeCount]

\* The harvest paths are modelled with one text, instant and like count.
RawComment(replyId, tweetId, replyTo) ==
    Comment(replyId, tweetId, replyTo, PlainText, 0, 0)

\* normalizeCorruptedMediaTags: mis-encoded tags are rewritten to canonical ones.
normalizeCorruptedMediaTags(text) == IF text = CorruptedText THEN TaggedText ELSE text

\* Index of the row with this replyId in the store, 0 when absent (Array.find).
FindRow(store, replyId) ==
    IF \E i \in 1..Len(store) : store[i].replyId = replyId
    THEN CHOOSE i \in 1..Len(store) :
            /\ store[i].replyId = replyId
            /\ \A j \in 1..(i - 1) : store[j].replyId # replyId
    ELSE 0

\* ------------------------------------------------- DOM extractor (part_004)
\* A post card: the status ids of its a[href*="/status/"] anchors in document
\* order, and which anchor wraps the <time> element (0: none).
SeqsUpTo(S, n) == UNION {[1..k -> S] : k \in 0..n}
Cards == {c \in [ids : SeqsUpTo(Ids, MaxAnchors), timeIdx : 0..MaxAnchors] : c.timeIdx <= Len(c.ids)}

\* extractStatusIdFromArticle(articleEl, rootTweetId); rootId = NoId when the
\* caller passes no root.  A throwing evaluate is the card without anchors.
extractStatusIdFromArticle(card, rootId) ==
    LET ids == card.ids
        timeId == IF card.timeIdx # 0 THEN ids[card.timeIdx] ELSE NoId
        nonRoot == {i \in 1..Len(ids) : ids[i] # rootId}
    IN  IF Len(ids) = 0 THEN NoId
        ELSE IF timeId # NoId /\ (rootId = NoId \/ timeId # rootId \/ Len(ids) = 1)
             THEN timeId
        ELSE IF rootId # NoId /\ nonRoot # {}
             THEN ids[CHOOSE i \in nonRoot : \A j \in nonRoot : i <= j]
        ELSE ids[Len(ids)]

\* Vertical positions: a card's boundingBox().y (NoBox: boundingBox() is null),
\* and the value of getCutoffY (Infinity: no recommendation heading found).
NoBox == 0 - 1
Infinity == 99
Ys == {0, 2}
CutoffYs == {1, Infinity}

\* The loop's cut-off test: `box && Number.isFinite(cutoffY) && box.y > cutoffY`.
BelowCutoff(y, cutoffY) == y # NoBox /\ cutoffY # Infinity /\ y > cutoffY

ReplyIds(replies) == {replies[i].id : i \in 1..Len(replies)}
SeqIds(ids) == {ids[i] : i \in 1..Len(ids)}
StoreIds(store) == {store[i].replyId : i \in 1..Len(store)} \cap Ids

\* Status ids are opaque strings that the harvester only tests for equality, so
\* a run is determined up to a renaming of the posts: the pages and
\* datasets of a run name each post by the order in which the run first meets it.
LeastNew(known) ==
    LET free == Ids \ known
    IN  IF free = {} THEN NoId ELSE CHOOSE i \in free : \A j \in free : i <= j
NamedInOrder(id, known) == id = NoId \/ id \in known \/ id = LeastNew(known)

\* What extractStatusIdFromArticle can return for the cards of a page, per root id.
ExtractedIds == [rootId \in Ids \cup {NoId} |->
                    {extractStatusIdFromArticle(c, rootId) : c \in Cards}]

\* The bounding boxes a card of the list can have on either side of the cut-off.
BoxesBelow(cutoffY) == {y \in Ys \cup {NoBox} : BelowCutoff(y, cutoffY)}
BoxesAbove(cutoffY) == {y \in Ys \cup {NoBox} : ~BelowCutoff(y, cutoffY)}

\* ------------------------------------------------------------------ state
VARIABLES
    input,                \* the run's inputs and configuration
    progressByUsername,   \* scrapeProgressStore: key -> stored progress
    lastRead,             \* per key, repliesFound of the last getScrapeProgress since the last clear
    devRawCommentStore,   \* the raw_comments rows, in insertion order
    orch,                 \* frame of the entry point (scrapeByTweetId / smartFetch)
    hv,                   \* frame of the browser harvester
    ap,                   \* frame of the Apify client
    persisted,            \* history: the insertRawComment calls, in order
    onTweetLog,           \* history: ids passed to onTweet, in order
    onReplyLog,           \* history: replies passed to onReply, in order
    errorWritten,         \* history: keys for which a stage-error record was written
    lateWrites,           \* history: the harvester wrote after the entry point returned
    accountCookies,       \* the credential ring, in order
    currentAccountIndex,  \* the ring's cursor
    nextLog,              \* history: results of getNextAccountCookie since the last mutation
    lastRingOp,           \* history: the last mutation of the ring and the state it met
    devAnalyzedStore,     \* replyIds that have an analysis row
    now,                  \* the clock that `new Date()` reads
    lastComment,          \* history: argument and pre-state of the last insertRawComment
    queryResult,          \* what the last read interface returned
    scan,                 \* one pass over the articles of a page
    currentConfig,        \* the pacing configuration
    lastDelay,            \* history: the last call of getDelay and the configuration it read
    nav,                  \* one call of gotoWithRetry
    browserInstance,      \* the cached browser: 0 for null, else its index in `launched`
    playwrightProxy,      \* the stored value of the proxy configuration key
    launched,             \* the browser processes launched so far
    acq,                  \* the concurrent calls of getBrowser
    route,                \* the configuration route in progress
    pace,                 \* the clock of one harvest and its reply emissions
    listing,              \* the reply enumerator's pass over the cards of a page
    tour,                 \* the account harvester's loop over the collected root posts
    snapshot,             \* history: the credential a harvest took at its start and the index it reports
    lastCount             \* history: the last engagement count text and the number parsed from it

\* The module state of the scraper library and of the database layer, idle
\* while an entry point runs.
browserVars == <<browserInstance, playwrightProxy, launched, acq, route>>
emitVars == <<pace, lastCount, listing, tour, snapshot>>
toolVars == <<currentConfig, lastDelay, nav, browserVars, emitVars>>
libVars == <<accountCookies, currentAccountIndex, nextLog, lastRingOp, devAnalyzedStore, now,
             lastComment, queryResult, scan, toolVars>>

vars == <<input, progressByUsername, lastRead, devRawCommentStore, orch, hv, ap,
          persisted, onTweetLog, onReplyLog, errorWritten, lateWrites, libVars>>

\* insertRawComment: upsert on replyId.  An existing row keeps its tweetId,
\* replyTo and createdAt (only text, likeCount and fetchedAt are refreshed); a
\* new id appends a row.
insertRawCommentKeepLikes(store, comment) ==
    LET normalizedComment ==
            [comment EXCEPT !.text = normalizeCorruptedMediaTags(comment.text)]
        k == FindRow(store, normalizedComment.replyId)
    IN  IF k # 0
        THEN [store EXCEPT ![k] = [@ EXCEPT !.text = normalizedComment.text,
                                            !.fetchedAt = now]]
        ELSE Append(store,
                 [replyId |-> normalizedComment.replyId,
                  tweetId |-> normalizedComment.tweetId,
                  text |-> normalizedComment.text,
                  createdAt |-> normalizedComment.createdAt,
                  likeCount |-> IF normalizedComment.likeCount # NoLike
                                THEN normalizedComment.likeCount ELSE 0,
                  replyTo |-> normalizedComment.replyTo,
                  fetchedAt |-> now])

insertRawComment(store, comment) ==
    LET normalizedComment ==
            [comment EXCEPT !.text = normalizeCorruptedMediaTags(comment.text)]
        k == FindRow(store, normalizedComment.replyId)
    IN  IF k # 0
        THEN [store EXCEPT ![k] = [@ EXCEPT !.text = normalizedComment.text,
                                            !.likeCount =
                                                IF normalizedComment.likeCount # NoLike
                                                THEN normalizedComment.likeCount ELSE @,
                                            !.fetchedAt = now]]
        ELSE Append(store,
                 [replyId |-> normalizedComment.replyId,
                  tweetId |-> normalizedComment.tweetId,
                  text |-> normalizedComment.text,
                  createdAt |-> normalizedComment.createdAt,
                  likeCount |-> IF normalizedComment.likeCount # NoLike
                                THEN normalizedComment.likeCount ELSE 0,
                  replyTo |-> normalizedComment.replyTo,
                  fetchedAt |-> now])

\* ------------------------------------------------------------ idle frames
\* A result value: kind "none" while the function has not settled, "value"
\* for a resolved result object, "rejected" for a rejected promise; method
\* "none" is a result object without a method field.
NoResult == [kind |-> "none", success |-> FALSE, error |-> "", method |-> "none"]
Result(success, error, method) ==
    [kind |-> "value", success |-> success, error |-> error, method |-> method]
Rejected(error) == [kind |-> "rejected", success |-> FALSE, error |-> error, method |-> "none"]

\* The library state while no operation on it is modelled.
NoComment == [replyId |-> NoId]
NoRingOp == [op |-> "none", index |-> 0, size |-> 0, removed |-> 0]
NoQuery == [op |-> "none", rows |-> <<>>]
ScanOff == [pc |-> "off"]
RingIdle ==
    /\ accountCookies = <<>>
    /\ currentAccountIndex = 0
    /\ nextLog = <<>>
    /\ lastRingOp = NoRingOp
StoreIdle ==
    /\ devAnalyzedStore = {}
    /\ now = 0
    /\ lastComment = NoComment
    /\ queryResult = NoQuery
\* Delays are in tenths of a second (30 is 3000 ms).
DEFAULT_SCRAPE_CONFIG ==
    [pageLoadDelay |-> 30, scrollDelay |-> 25, betweenTweetsDelay |-> 50,
     randomDelay |-> TRUE, randomDelayRange |-> <<10, 30>>]
NoDelay == [baseDelay |-> 0, delay |-> 0, config |-> DEFAULT_SCRAPE_CONFIG, called |-> FALSE]
NavOff == [pc |-> "off", attempt |-> 0, pauses |-> <<>>, attempts |-> 0, error |-> ""]
PacingIdle ==
    /\ currentConfig = DEFAULT_SCRAPE_CONFIG
    /\ lastDelay = NoDelay
NavIdle == nav = NavOff
Acquirers == {"a1", "a2"}
AcqIdle == [pc |-> "idle", proxyServer |-> "", got |-> 0, fresh |-> FALSE]
RouteIdle == [pc |-> "idle"]
PaceOff == [pc |-> "off", harvester |-> "", replyScrollDelayMs |-> 0, clock |-> 0, passes |-> 0,
            pending |-> 0, emitted |-> 0, lastEmitAt |-> 0, gap |-> 0]
NoCount == [text |-> <<>>, likeCount |-> 0, site |-> "", called |-> FALSE]
ListingOff == [pc |-> "off", rootTweet |-> 0, seenReplyIds |-> {}, allReplies |-> <<>>, rounds |-> 0]
TourOff == [pc |-> "off", tweets |-> 0, i |-> 0, waited |-> 0, failed |-> FALSE]
NoSnapshot == [called |-> FALSE, fromRing |-> FALSE, used |-> 0, currentAccount |-> 0,
               totalAccounts |-> 0]
EmitIdle ==
    /\ pace = PaceOff
    /\ listing = ListingOff
    /\ tour = TourOff
    /\ snapshot = NoSnapshot
    /\ lastCount = NoCount
BrowserIdle ==
    /\ browserInstance = 0
    /\ playwrightProxy = ""
    /\ launched = <<>>
    /\ acq = [p \in Acquirers |-> AcqIdle]
    /\ route = RouteIdle
CoreLibIdle ==
    /\ RingIdle
    /\ StoreIdle
    /\ scan = ScanOff
ToolIdle ==
    /\ PacingIdle
    /\ NavIdle
    /\ BrowserIdle
    /\ EmitIdle
LibIdle ==
    /\ CoreLibIdle
    /\ ToolIdle

\* The harvester's `progress` object right after construction (stage init).
InitialProgress ==
    [stage |-> "init", message |-> "init", repliesFound |-> 0, ref |-> "hv"]

HvOff ==
    [pc |-> "off", key |-> TweetKey, progress |-> InitialProgress, result |-> NoResult,
     context |-> "none", page |-> "none", urlIdx |-> 0,
     tweets |-> <<>>, idx |-> 0, scrollCount |-> 0,
     rootTweet |-> NoId, seenReplyIds |-> {}, allReplies |-> <<>>,
     lastReportedCount |-> 0, countBeforeScroll |-> 0, repliesCountBeforeThisTweet |-> 0,
     consecutiveScrollsWithNoNew |-> 0, scrollBudget |-> 0, firstPhaseRounds |-> 0,
     round |-> 0, bottomNoNewCount |-> 0,
     cutoffY |-> Infinity, i |-> 0, clicks |-> 0]

OrchIdle == [pc |-> "idle", result |-> NoResult, playwrightError |-> "",
             timedOut |-> FALSE, browserAttempted |-> FALSE, browserFailed |-> FALSE,
             apiStarted |-> FALSE, tweetIds |-> <<>>, idx |-> 0, itemsLeft |-> 0,
             itemsBudget |-> 0]

ApOff == [pc |-> "off", attempt |-> 0, runStatus |-> "RUNNING", itemsLeft |-> 0,
          savedReplies |-> 0, rootInserted |-> FALSE, result |-> NoResult, pollPause |-> 0]

NoInput == [tweetId |-> NoId, apifyToken |-> FALSE, expandFoldedReplies |-> FALSE,
            preferredMethod |-> "auto", username |-> "", xCookies |-> FALSE,
            maxTweets |-> 0, maxRepliesPerTweet |-> 0]

\* No entry point is running and nothing has been written.
EntryIdle ==
    /\ input = NoInput
    /\ progressByUsername = [k \in Keys |-> NoProgress]
    /\ lastRead = [k \in Keys |-> NoBox]
    /\ orch = OrchIdle
    /\ hv = HvOff
    /\ ap = ApOff
    /\ persisted = <<>>
    /\ onTweetLog = <<>>
    /\ onReplyLog = <<>>
    /\ errorWritten = {}
    /\ lateWrites = FALSE

\* ============================================================ SpecProgress
\* The progress map under arbitrary callers.
InitProgress ==
    /\ input = NoInput
    /\ progressByUsername = [k \in Keys |-> NoProgress]
    /\ lastRead = [k \in Keys |-> NoBox]
    /\ devRawCommentStore = <<>>
    /\ orch = OrchIdle
    /\ hv = HvOff
    /\ ap = ApOff
    /\ persisted = <<>>
    /\ onTweetLog = <<>>
    /\ onReplyLog = <<>>
    /\ errorWritten = {}
    /\ lateWrites = FALSE
    /\ LibIdle

runVars == <<input, devRawCommentStore, orch, ap, persisted, onTweetLog, onReplyLog,
             errorWritten, lateWrites, libVars>>

\* The stages the callers of SpecProgress write.
WrittenStages == {"fetching_replies", "error"}

\* setScrapeProgress(username, progress) called with a fresh object, as the
\* entry points and the Apify client do; the message tells whether the caller
\* reports fewer replies than the store holds.
SetScrapeProgress(k, stage, found) ==
    LET message == IF found < progressByUsername[k].repliesFound THEN "fewer" ELSE "found"
    IN  /\ progressByUsername' = [progressByUsername EXCEPT
                ![k] = setScrapeProgress(progressByUsername[k], Progress(stage, message, found))]
        /\ UNCHANGED <<lastRead, hv, runVars>>

\* updateProgress of a harvester: Object.assign on its own `progress` object,
\* then onProgress(progress) = setScrapeProgress(key, progress).  The count it
\* reports is allReplies.length, which only grows.
UpdateProgress(stage, found) ==
    /\ found >= hv.progress.repliesFound
    /\ LET p == [hv.progress EXCEPT !.stage = stage, !.message = "found", !.repliesFound = found]
       IN  /\ hv' = [hv EXCEPT !.progress = p]
           /\ progressByUsername' = [progressByUsername EXCEPT
                   ![hv.key] = setScrapeProgress(IF progressByUsername[hv.key].ref = "hv"
                                                 THEN p ELSE progressByUsername[hv.key], p)]
    /\ UNCHANGED <<lastRead, runVars>>

\* getScrapeProgress(username), answered to a polling client.
GetScrapeProgress(k) ==
    /\ getScrapeProgress(progressByUsername, k).stage # "none"
    /\ lastRead' = [lastRead EXCEPT ![k] = getScrapeProgress(progressByUsername, k).repliesFound]
    /\ UNCHANGED <<progressByUsername, hv, runVars>>

\* clearScrapeProgress(username) at the start of a run; the run's harvester
\* then builds a new `progress` object.
ClearScrapeProgress(k) ==
    /\ progressByUsername' = clearScrapeProgress(progressByUsername, k)
    /\ lastRead' = [lastRead EXCEPT ![k] = NoBox]
    /\ hv' = IF k = hv.key THEN [hv EXCEPT !.progress = InitialProgress] ELSE hv
    /\ UNCHANGED runVars

NextProgress ==
    \/ \E k \in Keys, st \in WrittenStages, n \in 0..MaxFound : SetScrapeProgress(k, st, n)
    \/ \E st \in WrittenStages, n \in 0..MaxFound : UpdateProgress(st, n)
    \/ \E k \in Keys : GetScrapeProgress(k)
    \/ \E k \in Keys : ClearScrapeProgress(k)

SpecProgress == InitProgress /\ [][NextProgress]_vars

\* C1: for every key, as long as the key is not cleared, the repliesFound that
\* reads return never decreases: neither the stored value nor two successive
\* reads go down between two states that both hold a record for the key.
C1_MonotonicRepliesFound ==
    [][\A k \in Keys :
          /\ (progressByUsername[k].stage # "none" /\ progressByUsername'[k].stage # "none")
                => progressByUsername'[k].repliesFound >= progressByUsername[k].repliesFound
          /\ (lastRead[k] # NoBox /\ lastRead'[k] # NoBox) => lastRead'[k] >= lastRead[k]
          /\ lastRead'[k] # NoBox => lastRead'[k] <= progressByUsername'[k].repliesFound]_vars

\* The stored record comes from a write that reported fewer replies than were
\* stored, the larger value was kept and a read has returned it.
C1_Witness ==
    \E k \in Keys : /\ progressByUsername[k].stage = "error"
                    /\ progressByUsername[k].message = "fewer"
                    /\ progressByUsername[k].repliesFound > 0
                    /\ lastRead[k] = progressByUsername[k].repliesFound

\* ================================================= harvester: shared pieces
\* Budgets of scrapeRepliesByTweetId, read from the environment
\* (SCRAPER_MAX_SCROLLS_NO_NEW, SCRAPER_SCROLL_BUDGET, SCRAPER_BOTTOM_NO_NEW,
\* SCRAPER_BOTTOM_ROUNDS).
maxScrollsWithNoNewLimit == 2
initialScrollBudget == 2
maxBottomNoNew == 1
maxBottomRounds == 2

\* Hard-coded in the expansion loop: tries per round, budget granted per click.
ExpandTries == 8
ExpandBudgetBonus == 20

\* The entry point has returned to its caller.
Returned == orch.pc = "done"

\* onProgress(progress) = setScrapeProgress(key, progress) with the harvester's
\* own object: when the stored object is that same object, prev is p itself.
StoreFromHv(store, k, p) ==
    [store EXCEPT ![k] = setScrapeProgress(IF store[k].ref = "hv" THEN p ELSE store[k], p)]

\* A write by the entry point or the Apify client, with a fresh object.
StoreFresh(store, k, p) == [store EXCEPT ![k] = setScrapeProgress(store[k], p)]

HvWrites(p) ==
    /\ progressByUsername' = StoreFromHv(progressByUsername, hv.key, p)
    /\ errorWritten' = IF p.stage = "error" THEN errorWritten \cup {hv.key} ELSE errorWritten
    /\ lateWrites' = (lateWrites \/ Returned)

NoHvWrites == UNCHANGED <<progressByUsername, errorWritten, lateWrites>>
NoPersist == UNCHANGED <<devRawCommentStore, persisted, onTweetLog, onReplyLog>>
HvFrame == UNCHANGED <<input, lastRead, orch, ap, libVars>>

\* updateProgress({message}), updateProgress({stage, message}).
WithMessage(p, m) == [p EXCEPT !.message = m]
WithStage(p, st, m) == [p EXCEPT !.stage = st, !.message = m]
WithFound(p, n) == [p EXCEPT !.repliesFound = n, !.message = "found"]

\* `return {success: false, error, progress}` from inside the try block.
HvReturnFailure(p, err) ==
    hv' = [hv EXCEPT !.progress = p, !.result = Result(FALSE, err, "none"), !.pc = "finally"]

\* The catch block of both harvesters: error progress, then a failure result.
HvCatch(err) ==
    LET p == WithStage(hv.progress, "error", "failed")
    IN  /\ HvReturnFailure(p, err)
        /\ HvWrites(p)
        /\ NoPersist
        /\ HvFrame

\* finally: page.close(), context.close(); then the promise settles and the
\* function's locals are gone.
HvFinally ==
    /\ hv.pc = "finally"
    /\ hv' = [HvOff EXCEPT !.pc = "settled", !.key = hv.key, !.result = hv.result,
                           !.page = IF hv.page = "open" THEN "closed" ELSE hv.page,
                           !.context = IF hv.context = "open" THEN "closed" ELSE hv.context]
    /\ NoHvWrites /\ NoPersist /\ HvFrame

\* onTweet of both entry points: insertRawComment of the root row.
RootRow(id) == RawComment(id, id, NoId)
\* onReply of both entry points: the tweetId column is reply.replyTo.
ReplyRow(reply) == RawComment(reply.id, reply.replyTo, reply.replyTo)

\* ================================ single-post harvester scrapeRepliesByTweetId
\* The first progress message, then createContext(useCookies).
TweetHvCreateContext ==
    /\ hv.pc = "ctx"
    /\ \E outcome \in {"ok", "launch", "ctxTimeout"} :
         IF outcome = "ok"
         THEN LET p == WithMessage(hv.progress, "starting")
              IN  /\ hv' = [hv EXCEPT !.progress = p, !.context = "open", !.pc = "page"]
                  /\ HvWrites(p)
                  /\ NoPersist /\ HvFrame
         ELSE HvCatch(outcome)

\* context.newPage(), then the message that names the post.
TweetHvNewPage ==
    /\ hv.pc = "page"
    /\ \E ok \in BOOLEAN :
         IF ok
         THEN LET p == WithMessage(hv.progress, "opening")
              IN  /\ hv' = [hv EXCEPT !.progress = p, !.page = "open",
                                      !.pc = "goto", !.urlIdx = 1]
                  /\ HvWrites(p)
                  /\ NoPersist /\ HvFrame
         ELSE HvCatch("page")

\* The loop over urlsToTry around gotoWithRetry.
TweetHvGoto ==
    /\ hv.pc = "goto"
    /\ \E outcome \in {"ok", "conn", "other"} :
         CASE outcome = "ok" ->
                /\ hv' = [hv EXCEPT !.pc = "waitsel"]
                /\ NoHvWrites /\ NoPersist /\ HvFrame
           [] outcome = "conn" /\ hv.urlIdx < 2 ->
                /\ hv' = [hv EXCEPT !.urlIdx = hv.urlIdx + 1]
                /\ NoHvWrites /\ NoPersist /\ HvFrame
           [] OTHER ->
                LET p == WithStage(hv.progress, "error", "connect")
                IN  /\ HvReturnFailure(p, "conn")
                    /\ HvWrites(p)
                    /\ NoPersist /\ HvFrame

\* page.waitForSelector(article) and the body-text probes of its catch block.
TweetHvWaitSelector ==
    /\ hv.pc = "waitsel"
    /\ \E outcome \in {"found", "login", "unavailable", "noload"} :
         /\ IF outcome = "found"
            THEN hv' = [hv EXCEPT !.pc = "root"]
            ELSE HvReturnFailure(hv.progress, outcome)
         /\ NoHvWrites /\ NoPersist /\ HvFrame

\* page.$$ found no article: `return {success: false, error: ...}`.
TweetHvNoArticle ==
    /\ hv.pc = "root"
    /\ HvReturnFailure(hv.progress, "noarticle")
    /\ NoHvWrites /\ NoPersist /\ HvFrame

\* The root record built from the first article, emitted through onTweet.
TweetHvRoot(first) ==
    /\ hv.pc = "root"
    /\ NamedInOrder(extractStatusIdFromArticle(first, input.tweetId), {input.tweetId})
    /\ LET parsed == extractStatusIdFromArticle(first, input.tweetId)
           parsedId == IF parsed # NoId THEN parsed ELSE input.tweetId
       IN  /\ hv' = [hv EXCEPT !.rootTweet = parsedId, !.pc = "wall"]
           /\ onTweetLog' = Append(onTweetLog, parsedId)
           /\ devRawCommentStore' = insertRawComment(devRawCommentStore, RootRow(parsedId))
           /\ persisted' = Append(persisted, [kind |-> "root", row |-> RootRow(parsedId), root |-> parsedId])
           /\ lateWrites' = (lateWrites \/ Returned)
           /\ UNCHANGED <<progressByUsername, errorWritten, onReplyLog>>
           /\ HvFrame

\* hasReplyLoginWall, then the switch to the reply phase.
TweetHvLoginWall ==
    /\ hv.pc = "wall"
    /\ \E wall \in BOOLEAN :
         IF wall
         THEN LET p == WithStage(hv.progress, "error", "loginwall")
              IN  /\ HvReturnFailure(p, "loginwall")
                  /\ HvWrites(p)
                  /\ NoPersist /\ HvFrame
         ELSE LET p == WithStage(hv.progress, "fetching_replies", "fetching")
              IN  /\ hv' = [hv EXCEPT !.progress = p, !.pc = "A_head",
                                      !.seenReplyIds = {hv.rootTweet},
                                      !.allReplies = <<>>, !.lastReportedCount = 0,
                                      !.consecutiveScrollsWithNoNew = 0,
                                      !.scrollBudget = initialScrollBudget,
                                      !.firstPhaseRounds = 0]
                  /\ HvWrites(p)
                  /\ NoPersist /\ HvFrame

\* An await on the page throws outside the per-card try blocks (page.$$,
\* element queries on the first article, the scroll evaluate): outer catch.
TweetHvThrow ==
    /\ hv.pc \in {"root", "A_head", "B_head"}
    /\ HvCatch("page")

\* The posts a single-post run has met so far.
TweetMetIds == ({input.tweetId, hv.rootTweet} \cup hv.seenReplyIds) \cap Ids

\* One iteration of processArticleList, an article below the cut-off: the
\* walk over the list breaks off.
TweetHvCardBelow ==
    /\ hv.pc \in {"A_cards", "B_cards"}
    /\ BoxesBelow(hv.cutoffY) # {}
    /\ hv' = [hv EXCEPT !.pc = IF hv.pc = "A_cards" THEN "A_break" ELSE "B_break"]
    /\ NoHvWrites /\ NoPersist /\ HvFrame

\* One iteration of processArticleList, an article above the cut-off: the id
\* extracted from it and whether an element query on it throws after the id
\* was marked as seen (the per-card catch swallows that).  The list has any
\* finite length: the round ends when the harvester finds no further article.
TweetHvCard(replyId, throws) ==
    /\ hv.pc \in {"A_cards", "B_cards"}
    /\ replyId \in ExtractedIds[hv.rootTweet]
    /\ NamedInOrder(replyId, TweetMetIds)
    /\ BoxesAbove(hv.cutoffY) # {}
    /\ throws => (replyId # NoId /\ replyId \notin hv.seenReplyIds)
    /\ LET reply == [id |-> replyId, replyTo |-> hv.rootTweet]
           n == Len(hv.allReplies) + 1
           p == WithFound(hv.progress, n)
       IN  IF replyId = NoId \/ replyId \in hv.seenReplyIds
           THEN /\ UNCHANGED hv
                /\ NoHvWrites /\ NoPersist /\ HvFrame
           ELSE IF throws
           THEN /\ hv' = [hv EXCEPT !.seenReplyIds = hv.seenReplyIds \cup {replyId}]
                /\ NoHvWrites /\ NoPersist /\ HvFrame
           ELSE /\ hv' = [hv EXCEPT !.seenReplyIds = hv.seenReplyIds \cup {replyId},
                                    !.allReplies = Append(hv.allReplies, reply),
                                    !.lastReportedCount = n,
                                    !.progress = p]
                /\ onReplyLog' = Append(onReplyLog, reply)
                /\ devRawCommentStore' = insertRawComment(devRawCommentStore, ReplyRow(reply))
                /\ persisted' = Append(persisted, [kind |-> "reply", row |-> ReplyRow(reply),
                                                   root |-> hv.rootTweet])
                /\ HvWrites(p)
                /\ UNCHANGED onTweetLog
                /\ HvFrame

\* Phase A, head of a round: the loop test, the budget, page.$$ and getCutoffY.
TweetHvRoundA ==
    /\ hv.pc = "A_head"
    /\ hv.consecutiveScrollsWithNoNew < maxScrollsWithNoNewLimit
    /\ hv.scrollBudget > 0
    /\ \E cutoff \in CutoffYs :
         hv' = [hv EXCEPT !.scrollBudget = hv.scrollBudget - 1,
                          !.firstPhaseRounds = hv.firstPhaseRounds + 1,
                          !.countBeforeScroll = Len(hv.allReplies),
                          !.cutoffY = cutoff, !.pc = "A_cards"]
    /\ NoHvWrites /\ NoPersist /\ HvFrame

\* Phase A, after processArticleList: the no-new counter, the progress note
\* of every fifth round, then the expansion loop or the scroll.
TweetHvEndRoundA ==
    /\ hv.pc \in {"A_cards", "A_break"}
    /\ LET noNew == IF Len(hv.allReplies) = hv.countBeforeScroll
                    THEN hv.consecutiveScrollsWithNoNew + 1 ELSE 0
           note == hv.firstPhaseRounds % 5 = 0
           p == IF note THEN [hv.progress EXCEPT !.repliesFound = Len(hv.allReplies),
                                                 !.message = "phase1"]
                ELSE hv.progress
       IN  /\ hv' = [hv EXCEPT !.consecutiveScrollsWithNoNew = noNew,
                               !.progress = p, !.i = 0,
                               !.countBeforeScroll = 0, !.cutoffY = Infinity,
                               !.pc = IF input.expandFoldedReplies THEN "A_expand" ELSE "A_head"]
           /\ IF note THEN HvWrites(p) ELSE NoHvWrites
    /\ NoPersist /\ HvFrame

\* The expansion loop: up to ExpandTries clicks on a button that matches
\* EXPAND_REPLY_BUTTON_PATTERN; a click grants budget and resets the counter.
TweetHvExpand ==
    /\ hv.pc = "A_expand"
    /\ \E clicked \in (IF hv.clicks < MaxExpandClicks THEN BOOLEAN ELSE {FALSE}) :
         IF hv.i < ExpandTries /\ clicked
         THEN hv' = [hv EXCEPT !.scrollBudget = hv.scrollBudget + ExpandBudgetBonus,
                               !.consecutiveScrollsWithNoNew = 0,
                               !.i = hv.i + 1, !.clicks = hv.clicks + 1]
         ELSE hv' = [hv EXCEPT !.pc = "A_head"]
    /\ NoHvWrites /\ NoPersist /\ HvFrame

\* Phase A ends: the message that announces the bottom sweep.
TweetHvEndPhaseA ==
    /\ hv.pc = "A_head"
    /\ ~(hv.consecutiveScrollsWithNoNew < maxScrollsWithNoNewLimit /\ hv.scrollBudget > 0)
    /\ LET p == WithMessage(hv.progress, "sweep")
       IN  /\ hv' = [hv EXCEPT !.progress = p, !.bottomNoNewCount = 0, !.round = 0,
                               !.pc = "B_head"]
           /\ HvWrites(p)
    /\ NoPersist /\ HvFrame

\* A bottom sweep whose loop test lacks the round cap.
TweetHvRoundBNoCap ==
    /\ hv.pc = "B_head"
    /\ hv.bottomNoNewCount < maxBottomNoNew
    /\ \E cutoff \in CutoffYs :
         hv' = [hv EXCEPT !.countBeforeScroll = Len(hv.allReplies),
                          !.cutoffY = cutoff, !.pc = "B_cards"]
    /\ NoHvWrites /\ NoPersist /\ HvFrame

\* Phase B, head of a round: scroll to the bottom, page.$$ and getCutoffY.
TweetHvRoundB ==
    /\ hv.pc = "B_head"
    /\ hv.round < maxBottomRounds
    /\ hv.bottomNoNewCount < maxBottomNoNew
    /\ \E cutoff \in CutoffYs :
         hv' = [hv EXCEPT !.countBeforeScroll = Len(hv.allReplies),
                          !.cutoffY = cutoff, !.pc = "B_cards"]
    /\ NoHvWrites /\ NoPersist /\ HvFrame

\* Phase B, after processArticleList: the no-new counter, the progress note
\* of every fourth round, round++.
TweetHvEndRoundB ==
    /\ hv.pc \in {"B_cards", "B_break"}
    /\ LET noNew == IF Len(hv.allReplies) = hv.countBeforeScroll
                    THEN hv.bottomNoNewCount + 1 ELSE 0
           note == hv.round % 4 = 0
           p == IF note THEN [hv.progress EXCEPT !.repliesFound = Len(hv.allReplies),
                                                 !.message = "phase2"]
                ELSE hv.progress
       IN  /\ hv' = [hv EXCEPT !.bottomNoNewCount = noNew, !.progress = p,
                               !.countBeforeScroll = 0, !.cutoffY = Infinity,
                               !.round = hv.round + 1, !.pc = "B_head"]
           /\ IF note THEN HvWrites(p) ELSE NoHvWrites
    /\ NoPersist /\ HvFrame

\* Phase B ends: stage complete and the success result.
TweetHvComplete ==
    /\ hv.pc = "B_head"
    /\ ~(hv.round < maxBottomRounds /\ hv.bottomNoNewCount < maxBottomNoNew)
    /\ LET p == WithStage(hv.progress, "complete", "complete")
       IN  /\ hv' = [hv EXCEPT !.progress = p, !.result = Result(TRUE, "", "none"),
                               !.pc = "finally"]
           /\ HvWrites(p)
    /\ NoPersist /\ HvFrame

TweetHarvester ==
    \/ TweetHvCreateContext
    \/ TweetHvNewPage
    \/ TweetHvGoto
    \/ TweetHvWaitSelector
    \/ TweetHvNoArticle
    \/ \E first \in Cards : TweetHvRoot(first)
    \/ TweetHvLoginWall
    \/ TweetHvThrow
    \/ TweetHvCardBelow
    \/ \E replyId \in Ids \cup {NoId}, throws \in BOOLEAN : TweetHvCard(replyId, throws)
    \/ TweetHvRoundA
    \/ TweetHvEndRoundA
    \/ TweetHvExpand
    \/ TweetHvEndPhaseA
    \/ TweetHvRoundB
    \/ TweetHvEndRoundB
    \/ TweetHvComplete
    \/ HvFinally

\* ==================================== Apify client scrapeTweetRepliesViaApify
ApifyPollAttempts == 80
ApifyProgressEvery == 20
ApifyPollPause == 30        \* setTimeout(resolve, 3000), in tenths of a second

\* An item of the dataset: id, conversationId, inReplyToStatusId (NoId: absent).
Items == [id : Ids \cup {NoId}, conversationId : Ids \cup {NoId}, inReplyTo : Ids \cup {NoId}]

\* setApifyProgress(stage, message, repliesFound).
ApWrites(stage, message, found) ==
    progressByUsername' = StoreFresh(progressByUsername, TweetKey, Progress(stage, message, found))

ApFrame == UNCHANGED <<input, lastRead, hv, onTweetLog, onReplyLog, errorWritten, lateWrites,
                       libVars>>

\* `return {success: false, method: "apify", error, commentsCount: 0}`.
ApFailure(err) == ap' = [ap EXCEPT !.result = Result(FALSE, err, "apify"), !.pc = "settled"]

\* The first progress write and the POST that starts the actor run.
ApStartRun ==
    /\ ap.pc = "start"
    /\ orch' = [orch EXCEPT !.apiStarted = TRUE]
    /\ \E outcome \in {"ok", "notok", "noids", "throw"} :
         IF outcome = "ok"
         THEN /\ ap' = [ap EXCEPT !.pc = "poll", !.attempt = 0, !.runStatus = "RUNNING"]
              /\ ApWrites("loading", "run started", 0)
         ELSE /\ ApFailure(outcome)
              /\ ApWrites("loading", "fallback", 0)
    /\ UNCHANGED <<devRawCommentStore, persisted>>
    /\ ApFrame

\* One iteration of the status poll loop.
ApPollNoCap ==
    /\ ap.pc = "poll"
    /\ ap.runStatus = "RUNNING"
    /\ \E st \in {"READY", "RUNNING", "SUCCEEDED", "FAILED", "throw"} :
         IF st = "throw"
         THEN ap' = [ap EXCEPT !.result = Result(FALSE, "throw", "apify"), !.pc = "settled",
                               !.attempt = 0, !.pollPause = 0]
         ELSE ap' = [ap EXCEPT !.attempt = ap.attempt + 1, !.runStatus = st,
                               !.pollPause = ApifyPollPause]
    /\ UNCHANGED <<progressByUsername, devRawCommentStore, persisted, orch>>
    /\ ApFrame

ApPoll ==
    /\ ap.pc = "poll"
    /\ ap.attempt < ApifyPollAttempts
    /\ ap.runStatus = "RUNNING"
    /\ \E st \in {"READY", "RUNNING", "SUCCEEDED", "FAILED", "throw"} :
         IF st = "throw"
         THEN ap' = [ap EXCEPT !.result = Result(FALSE, "throw", "apify"), !.pc = "settled",
                               !.attempt = 0, !.pollPause = 0]
         ELSE ap' = [ap EXCEPT !.attempt = ap.attempt + 1, !.runStatus = st,
                               !.pollPause = ApifyPollPause]
    /\ UNCHANGED <<progressByUsername, devRawCommentStore, persisted, orch>>
    /\ ApFrame

\* After the poll loop (its counter is out of scope): the status test and the
\* dataset fetch.
ApFetchDataset ==
    /\ ap.pc = "poll"
    /\ ~(ap.attempt < ApifyPollAttempts /\ ap.runStatus = "RUNNING")
    /\ IF ap.runStatus # "SUCCEEDED"
       THEN ap' = [ap EXCEPT !.result = Result(FALSE, "status", "apify"), !.pc = "settled",
                             !.attempt = 0, !.pollPause = 0]
       ELSE \E n \in 0..MaxItems, throws \in BOOLEAN :
              IF throws \/ n = 0
              THEN ap' = [ap EXCEPT !.result = Result(FALSE, IF throws THEN "throw" ELSE "noitems",
                                                     "apify"),
                                    !.pc = "settled", !.attempt = 0, !.pollPause = 0]
              ELSE ap' = [ap EXCEPT !.pc = "items", !.itemsLeft = n, !.attempt = 0, !.pollPause = 0,
                                    !.savedReplies = 0, !.rootInserted = FALSE]
    /\ UNCHANGED <<progressByUsername, devRawCommentStore, persisted, orch>>
    /\ ApFrame

\* saveRootTweet / saveReply rows of the Apify client.
ApReplyTo(item) == IF item.inReplyTo # NoId THEN item.inReplyTo ELSE input.tweetId
ApReplyRow(item) == RawComment(item.id, ApReplyTo(item), ApReplyTo(item))

\* One iteration of `for (const item of items)`.  The item's id is named in
\* first-met order; conversationId and inReplyToStatusId are only compared
\* with the requested id or stored: each is absent, the requested post, or
\* some other post.
ApItem(item) ==
    /\ ap.pc = "items"
    /\ ap.itemsLeft > 0
    /\ NamedInOrder(item.id, StoreIds(devRawCommentStore) \cup {input.tweetId})
    /\ NamedInOrder(item.conversationId, {input.tweetId})
    /\ NamedInOrder(item.inReplyTo, {input.tweetId})
    /\ LET sameConversation == \/ item.conversationId = input.tweetId
                               \/ item.inReplyTo = input.tweetId
                               \/ item.id = input.tweetId
           saved == ap.savedReplies + 1
       IN  IF item.id = NoId \/ ~sameConversation
           THEN /\ ap' = [ap EXCEPT !.itemsLeft = ap.itemsLeft - 1]
                /\ UNCHANGED <<progressByUsername, devRawCommentStore, persisted>>
           ELSE IF item.id = input.tweetId
           THEN /\ ap' = [ap EXCEPT !.itemsLeft = ap.itemsLeft - 1, !.rootInserted = TRUE]
                /\ devRawCommentStore' = insertRawComment(devRawCommentStore, RootRow(item.id))
                /\ persisted' = Append(persisted, [kind |-> "root", row |-> RootRow(item.id),
                                                   root |-> input.tweetId])
                /\ UNCHANGED progressByUsername
           ELSE /\ ap' = [ap EXCEPT !.itemsLeft = ap.itemsLeft - 1, !.savedReplies = saved]
                /\ devRawCommentStore' = insertRawComment(devRawCommentStore, ApReplyRow(item))
                /\ persisted' = Append(persisted, [kind |-> "reply", row |-> ApReplyRow(item),
                                                   root |-> input.tweetId])
                /\ IF saved % ApifyProgressEvery = 0
                   THEN ApWrites("fetching_replies", "fetched", saved)
                   ELSE UNCHANGED progressByUsername
    /\ UNCHANGED orch
    /\ ApFrame

\* After the loop: the synthesised root, stage complete, the success result.
ApFinish ==
    /\ ap.pc = "items"
    /\ ap.itemsLeft = 0
    /\ IF ap.rootInserted
       THEN UNCHANGED <<devRawCommentStore, persisted>>
       ELSE /\ devRawCommentStore' = insertRawComment(devRawCommentStore, RootRow(input.tweetId))
            /\ persisted' = Append(persisted, [kind |-> "root", row |-> RootRow(input.tweetId),
                                               root |-> input.tweetId])
    /\ ApWrites("complete", "complete", ap.savedReplies)
    /\ ap' = [ap EXCEPT !.result = Result(TRUE, "", "apify"), !.pc = "settled"]
    /\ UNCHANGED orch
    /\ ApFrame

ApifyClient ==
    \/ ApStartRun
    \/ ApPoll
    \/ ApFetchDataset
    \/ \E item \in Items : ApItem(item)
    \/ ApFinish

\* ======================================== entry point scrapeByTweetId (Spec)
\* isBrowserLaunchFailure: the message matches /Browser launch failed|Failed to
\* launch the browser process|libnss3\.so|Browser initialization timed out/.
isBrowserLaunchFailure(message) == message \in {"launch", "initTimeout"}

OrchFrame == UNCHANGED <<input, lastRead, devRawCommentStore, persisted, onTweetLog,
                         onReplyLog, lateWrites, libVars>>

\* getConfig throws (no database outside development): the mutation rejects.
TweetConfigFails ==
    /\ orch.pc = "idle"
    /\ orch' = [orch EXCEPT !.pc = "done", !.result = Rejected("config")]
    /\ UNCHANGED <<progressByUsername, errorWritten, hv, ap>>
    /\ OrchFrame

\* clearScrapeProgress, then the harvester is started and raced against the timer.
TweetStart ==
    /\ orch.pc = "idle"
    /\ orch' = [orch EXCEPT !.pc = "race", !.browserAttempted = TRUE]
    /\ progressByUsername' = clearScrapeProgress(progressByUsername, TweetKey)
    /\ hv' = [HvOff EXCEPT !.pc = "ctx", !.key = TweetKey]
    /\ UNCHANGED <<errorWritten, ap>>
    /\ OrchFrame

\* The catch block of scrapeByTweetId for a rejection with this message.
TweetCatch(errorMessage) ==
    IF input.apifyToken /\ isBrowserLaunchFailure(errorMessage)
    THEN /\ orch' = [orch EXCEPT !.pc = "apifyCatch", !.playwrightError = errorMessage]
         /\ ap' = [ApOff EXCEPT !.pc = "start"]
         /\ UNCHANGED <<progressByUsername, errorWritten>>
    ELSE /\ orch' = [orch EXCEPT !.pc = "done", !.timedOut = TRUE,
                                 !.result = Result(FALSE, errorMessage, "none")]
         /\ progressByUsername' = StoreFresh(progressByUsername, TweetKey,
                                             Progress("error", errorMessage, 0))
         /\ errorWritten' = errorWritten \cup {TweetKey}
         /\ UNCHANGED ap

\* The hard timeout wins the race: the only rejection the race can deliver.
TweetTimeout ==
    /\ orch.pc = "race"
    /\ hv.pc # "settled"
    /\ TweetCatch("timeout")
    /\ UNCHANGED hv
    /\ OrchFrame

\* The harvester settles first: success, fallback to Apify, or failure.
TweetHarvestSettled ==
    /\ orch.pc = "race"
    /\ hv.pc = "settled"
    /\ IF hv.result.success
       THEN /\ orch' = [orch EXCEPT !.pc = "done", !.result = Result(TRUE, "", "none")]
            /\ UNCHANGED ap
       ELSE IF input.apifyToken
       THEN /\ orch' = [orch EXCEPT !.pc = "apify", !.playwrightError = hv.result.error]
            /\ ap' = [ApOff EXCEPT !.pc = "start"]
       ELSE /\ orch' = [orch EXCEPT !.pc = "done", !.playwrightError = hv.result.error,
                                    !.result = Result(FALSE, hv.result.error, "puppeteer")]
            /\ UNCHANGED ap
    /\ UNCHANGED <<progressByUsername, errorWritten, hv>>
    /\ OrchFrame

\* The awaited Apify client has settled: its result, or a failure that quotes it.
TweetApifyReturn ==
    /\ orch.pc \in {"apify", "apifyCatch"}
    /\ ap.pc = "settled"
    /\ orch' = [orch EXCEPT !.pc = "done",
                            !.result = IF ap.result.success THEN ap.result
                                       ELSE Result(FALSE, ap.result.error, "apify")]
    /\ UNCHANGED <<progressByUsername, errorWritten, hv, ap>>
    /\ OrchFrame

InitTweet ==
    /\ input \in {[NoInput EXCEPT !.tweetId = t, !.apifyToken = tok, !.expandFoldedReplies = e] :
                     t \in TweetIds, tok \in BOOLEAN, e \in BOOLEAN}
    /\ progressByUsername = [k \in Keys |-> NoProgress]
    /\ lastRead = [k \in Keys |-> NoBox]
    /\ devRawCommentStore = <<>>
    /\ orch = OrchIdle
    /\ hv = HvOff
    /\ ap = ApOff
    /\ persisted = <<>>
    /\ onTweetLog = <<>>
    /\ onReplyLog = <<>>
    /\ errorWritten = {}
    /\ lateWrites = FALSE
    /\ LibIdle

Next ==
    \/ TweetConfigFails
    \/ TweetStart
    \/ TweetTimeout
    \/ TweetHarvestSettled
    \/ TweetApifyReturn
    \/ TweetHarvester
    \/ ApifyClient

Spec == InitTweet /\ [][Next]_vars

\* ==================================== account harvester scrapeUserComments
\* Hard-coded in the reply loop of scrapeUserComments.
maxScrollsWithNoNew == 8
accountScrollBudget == 500

\* maxScrolls = Math.ceil(maxTweets / 3) + 5.
maxScrolls(maxTweets) == ((maxTweets + 2) \div 3) + 5

\* The posts an account run has met so far.
MetIds == SeqIds(hv.tweets) \cup ReplyIds(hv.allReplies)

\* `if (!username) return ...` before the try block: no progress write, no finally.
AccHvEmptyUsername ==
    /\ hv.pc = "ctx"
    /\ hv.key = UserKey
    /\ input.username = ""
    /\ hv' = [hv EXCEPT !.result = Result(FALSE, "empty", "none"), !.pc = "settled"]
    /\ NoHvWrites /\ NoPersist /\ HvFrame

\* The loading messages, then createContext raced against the 15 s cap.  When
\* the cap wins, the context may still be created later and is then never
\* closed ("orphan").
AccHvCreateContext ==
    /\ hv.pc = "ctx"
    /\ hv.key = UserKey
    /\ input.username # ""
    /\ \E outcome \in {"ok", "launch", "initTimeout"}, orphan \in BOOLEAN :
         LET p == WithStage(hv.progress, "loading", "starting")
             q == WithStage(p, "error", "failed")
         IN  IF outcome = "ok"
             THEN /\ hv' = [hv EXCEPT !.progress = p, !.context = "open", !.pc = "page"]
                  /\ HvWrites(p)
             ELSE /\ hv' = [hv EXCEPT !.progress = q, !.result = Result(FALSE, outcome, "none"),
                                      !.context = IF outcome = "initTimeout" /\ orphan
                                                  THEN "orphan" ELSE "none",
                                      !.pc = "finally"]
                  /\ HvWrites(q)
    /\ NoPersist /\ HvFrame

\* context.newPage() and gotoWithRetry to the profile page.
AccHvOpenProfile ==
    /\ hv.pc = "page"
    /\ hv.key = UserKey
    /\ \E outcome \in {"ok", "newPage", "net", "other"} :
         IF outcome = "ok"
         THEN LET p == WithMessage(hv.progress, "navigating")
              IN  /\ hv' = [hv EXCEPT !.progress = p, !.page = "open", !.pc = "login"]
                  /\ HvWrites(p)
         ELSE LET p == WithStage(hv.progress, "error", "failed")
              IN  /\ hv' = [hv EXCEPT !.progress = p, !.result = Result(FALSE, outcome, "none"),
                                      !.page = IF outcome = "newPage" THEN "none" ELSE "open",
                                      !.pc = "finally"]
                  /\ HvWrites(p)
    /\ NoPersist /\ HvFrame

\* The login check: a login prompt without cookies ends the run.  useCookies
\* is `cookies || getNextAccountCookie()`: the configured cookie, else whatever
\* the credential ring holds.
AccHvLoginCheck ==
    /\ hv.pc = "login"
    /\ \E prompt \in BOOLEAN, useCookies \in (IF input.xCookies THEN {TRUE} ELSE BOOLEAN) :
         IF prompt /\ ~useCookies
         THEN LET p == WithStage(hv.progress, "error", "login")
              IN  /\ HvReturnFailure(p, "login")
                  /\ HvWrites(p)
         ELSE LET p == WithStage(hv.progress, "fetching_tweets", "tweets")
              IN  /\ hv' = [hv EXCEPT !.progress = p, !.tweets = <<>>, !.scrollCount = 0,
                                      !.pc = "T_head"]
                  /\ HvWrites(p)
    /\ NoPersist /\ HvFrame

\* Root collection, head of a round: the loop test, page.$$ and getCutoffY.
AccHvCollectRound ==
    /\ hv.pc = "T_head"
    /\ Len(hv.tweets) < input.maxTweets
    /\ hv.scrollCount < maxScrolls(input.maxTweets)
    /\ \E cutoff \in CutoffYs : hv' = [hv EXCEPT !.cutoffY = cutoff, !.pc = "T_cards"]
    /\ NoHvWrites /\ NoPersist /\ HvFrame

\* Root collection, an article below the cut-off: the recommendations are
\* reached and collection ends.
AccHvCollectCardBelow ==
    /\ hv.pc = "T_cards"
    /\ Len(hv.tweets) < input.maxTweets
    /\ BoxesBelow(hv.cutoffY) # {}
    /\ hv' = [hv EXCEPT !.pc = "T_end", !.cutoffY = Infinity]
    /\ NoHvWrites /\ NoPersist /\ HvFrame

\* Root collection, one article of the list above the cut-off.
AccHvCollectCard(tweetId) ==
    /\ hv.pc = "T_cards"
    /\ tweetId \in ExtractedIds[NoId]
    /\ NamedInOrder(tweetId, MetIds)
    /\ BoxesAbove(hv.cutoffY) # {}
    /\ LET p == WithMessage(hv.progress, "tweets")
       IN  IF Len(hv.tweets) >= input.maxTweets
           THEN /\ hv' = [hv EXCEPT !.pc = "T_break"]
                /\ NoHvWrites
           ELSE IF tweetId = NoId \/ tweetId \in SeqIds(hv.tweets)
           THEN /\ UNCHANGED hv
                /\ NoHvWrites
           ELSE /\ hv' = [hv EXCEPT !.tweets = Append(hv.tweets, tweetId), !.progress = p]
                /\ HvWrites(p)
    /\ NoPersist /\ HvFrame

\* Root collection, after the list: scroll on when more roots are wanted.
AccHvCollectEndRound ==
    /\ hv.pc \in {"T_cards", "T_break"}
    /\ hv' = [hv EXCEPT !.scrollCount = IF Len(hv.tweets) < input.maxTweets
                                        THEN hv.scrollCount + 1 ELSE hv.scrollCount,
                        !.cutoffY = Infinity, !.pc = "T_head"]
    /\ NoHvWrites /\ NoPersist /\ HvFrame

\* Root collection ends (loop test false, or the recommendations were reached).
AccHvCollectDone ==
    /\ \/ hv.pc = "T_end"
       \/ /\ hv.pc = "T_head"
          /\ ~(Len(hv.tweets) < input.maxTweets /\ hv.scrollCount < maxScrolls(input.maxTweets))
    /\ LET p == WithStage(hv.progress, "fetching_replies", "replies")
       IN  /\ hv' = [hv EXCEPT !.progress = p, !.idx = 1, !.allReplies = <<>>,
                               !.scrollCount = 0, !.pc = "R_next"]
           /\ HvWrites(p)
    /\ NoPersist /\ HvFrame

\* Head of the loop over the collected roots: the root is emitted through onTweet.
AccHvNextTweet ==
    /\ hv.pc = "R_next"
    /\ hv.idx <= Len(hv.tweets)
    /\ LET tweet == hv.tweets[hv.idx]
           p == WithMessage(hv.progress, "tweet")
       IN  /\ hv' = [hv EXCEPT !.progress = p, !.rootTweet = tweet, !.pc = "R_goto"]
           /\ onTweetLog' = Append(onTweetLog, tweet)
           /\ devRawCommentStore' = insertRawComment(devRawCommentStore, RootRow(tweet))
           /\ persisted' = Append(persisted, [kind |-> "root", row |-> RootRow(tweet), root |-> tweet])
           /\ HvWrites(p)
           /\ UNCHANGED onReplyLog
    /\ HvFrame

\* page.goto of the permalink, the login-wall test, the loop counters.
AccHvOpenTweet ==
    /\ hv.pc = "R_goto"
    /\ \E outcome \in {"ok", "wall", "throw"} :
         CASE outcome = "ok" ->
                /\ hv' = [hv EXCEPT !.repliesCountBeforeThisTweet = Len(hv.allReplies),
                                    !.consecutiveScrollsWithNoNew = 0,
                                    !.scrollBudget = accountScrollBudget, !.pc = "R_head"]
                /\ NoHvWrites
           [] outcome = "wall" ->
                LET p == WithStage(hv.progress, "error", "loginwall")
                IN  /\ HvReturnFailure(p, "loginwall")
                    /\ HvWrites(p)
           [] OTHER ->
                /\ hv' = [hv EXCEPT !.idx = hv.idx + 1, !.rootTweet = NoId, !.pc = "R_next"]
                /\ NoHvWrites
    /\ NoPersist /\ HvFrame

\* Reply loop, head of a round.
AccHvRound ==
    /\ hv.pc = "R_head"
    /\ hv.consecutiveScrollsWithNoNew < maxScrollsWithNoNew
    /\ hv.scrollBudget > 0
    /\ \E cutoff \in CutoffYs :
         hv' = [hv EXCEPT !.scrollBudget = hv.scrollBudget - 1,
                          !.countBeforeScroll = Len(hv.allReplies),
                          !.cutoffY = cutoff, !.pc = "R_cards"]
    /\ NoHvWrites /\ NoPersist /\ HvFrame

\* Reply loop, an article below the cut-off ends the loop of this root.
AccHvCardBelow ==
    /\ hv.pc = "R_cards"
    /\ BoxesBelow(hv.cutoffY) # {}
    /\ hv' = [hv EXCEPT !.pc = "R_done"]
    /\ NoHvWrites /\ NoPersist /\ HvFrame

\* Reply loop, one article of the list above the cut-off.
AccHvCard(replyId) ==
    /\ hv.pc = "R_cards"
    /\ replyId \in ExtractedIds[hv.rootTweet]
    /\ NamedInOrder(replyId, MetIds)
    /\ BoxesAbove(hv.cutoffY) # {}
    /\ LET reply == [id |-> replyId, replyTo |-> hv.rootTweet]
           p == WithFound(hv.progress, Len(hv.allReplies) + 1)
       IN  IF replyId = NoId \/ replyId = hv.rootTweet \/ replyId \in ReplyIds(hv.allReplies)
           THEN /\ UNCHANGED hv
                /\ NoHvWrites /\ NoPersist
           ELSE /\ hv' = [hv EXCEPT !.allReplies = Append(hv.allReplies, reply), !.progress = p]
                /\ onReplyLog' = Append(onReplyLog, reply)
                /\ devRawCommentStore' = insertRawComment(devRawCommentStore, ReplyRow(reply))
                /\ persisted' = Append(persisted, [kind |-> "reply", row |-> ReplyRow(reply),
                                                   root |-> hv.rootTweet])
                /\ HvWrites(p)
                /\ UNCHANGED onTweetLog
    /\ HvFrame

\* Reply loop, after the list: the per-root cap, the no-new counter, one
\* expansion click, the scroll.
AccHvEndRound ==
    /\ hv.pc = "R_cards"
    /\ LET repliesForThisTweet == Len(hv.allReplies) - hv.repliesCountBeforeThisTweet
           noNew == IF Len(hv.allReplies) = hv.countBeforeScroll
                    THEN hv.consecutiveScrollsWithNoNew + 1 ELSE 0
       IN  IF input.maxRepliesPerTweet > 0 /\ repliesForThisTweet >= input.maxRepliesPerTweet
           THEN hv' = [hv EXCEPT !.pc = "R_done"]
           ELSE \E clicked \in (IF input.expandFoldedReplies /\ hv.clicks < MaxExpandClicks
                                THEN BOOLEAN ELSE {FALSE}) :
                  hv' = [hv EXCEPT !.consecutiveScrollsWithNoNew = noNew,
                                   !.scrollBudget = IF clicked THEN hv.scrollBudget + ExpandBudgetBonus
                                                    ELSE hv.scrollBudget,
                                   !.clicks = IF clicked THEN hv.clicks + 1 ELSE hv.clicks,
                                   !.countBeforeScroll = 0, !.cutoffY = Infinity,
                                   !.pc = "R_head"]
    /\ NoHvWrites /\ NoPersist /\ HvFrame

\* The reply loop of one root has ended; betweenTweetsDelay before the next.
AccHvTweetDone ==
    /\ \/ hv.pc = "R_done"
       \/ /\ hv.pc = "R_head"
          /\ ~(hv.consecutiveScrollsWithNoNew < maxScrollsWithNoNew /\ hv.scrollBudget > 0)
    /\ hv' = [hv EXCEPT !.idx = hv.idx + 1, !.rootTweet = NoId, !.cutoffY = Infinity,
                        !.countBeforeScroll = 0, !.repliesCountBeforeThisTweet = 0,
                        !.consecutiveScrollsWithNoNew = 0, !.scrollBudget = 0,
                        !.pc = "R_next"]
    /\ NoHvWrites /\ NoPersist /\ HvFrame

\* A page call of the reply loop throws: the per-root catch logs it and the
\* loop over the roots goes on.
AccHvTweetThrow ==
    /\ hv.pc = "R_head"
    /\ hv' = [hv EXCEPT !.idx = hv.idx + 1, !.rootTweet = NoId, !.cutoffY = Infinity,
                        !.countBeforeScroll = 0, !.repliesCountBeforeThisTweet = 0,
                        !.consecutiveScrollsWithNoNew = 0, !.scrollBudget = 0,
                        !.pc = "R_next"]
    /\ NoHvWrites /\ NoPersist /\ HvFrame

\* A page call of the root collection throws: the outer catch.
AccHvThrow ==
    /\ hv.pc = "T_head"
    /\ HvCatch("other")

\* All roots done: stage complete and the success result with the roots.
AccHvComplete ==
    /\ hv.pc = "R_next"
    /\ hv.idx > Len(hv.tweets)
    /\ LET p == WithStage(hv.progress, "complete", "complete")
       IN  /\ hv' = [hv EXCEPT !.progress = p, !.result = Result(TRUE, "", "none"),
                               !.pc = "finally"]
           /\ HvWrites(p)
    /\ NoPersist /\ HvFrame

\* finally of scrapeUserComments; the result keeps the collected roots.
AccHvFinally ==
    /\ hv.pc = "finally"
    /\ hv' = [HvOff EXCEPT !.pc = "settled", !.key = hv.key, !.result = hv.result,
                           !.tweets = IF hv.result.success THEN hv.tweets ELSE <<>>,
                           !.page = IF hv.page = "open" THEN "closed" ELSE hv.page,
                           !.context = IF hv.context = "open" THEN "closed" ELSE hv.context]
    /\ NoHvWrites /\ NoPersist /\ HvFrame

AccountHarvester ==
    \/ AccHvEmptyUsername
    \/ AccHvCreateContext
    \/ AccHvOpenProfile
    \/ AccHvLoginCheck
    \/ AccHvCollectRound
    \/ \E tweetId \in Ids \cup {NoId} : AccHvCollectCard(tweetId)
    \/ AccHvCollectCardBelow
    \/ AccHvCollectEndRound
    \/ AccHvCollectDone
    \/ AccHvNextTweet
    \/ AccHvOpenTweet
    \/ AccHvRound
    \/ \E replyId \in Ids \cup {NoId} : AccHvCard(replyId)
    \/ AccHvCardBelow
    \/ AccHvEndRound
    \/ AccHvTweetDone
    \/ AccHvTweetThrow
    \/ AccHvThrow
    \/ AccHvComplete
    \/ AccHvFinally

\* ============================================ entry point smartFetch (SpecSmart)
PreferredMethods == {"puppeteer", "playwright", "apify", "auto"}

\* A browser block that every mode enters.
BrowserBlockAlways(preferredMethod) == TRUE

\* `preferredMethod === 'auto' || === 'playwright' || === 'puppeteer'`.
BrowserBlockEnabled(preferredMethod) == preferredMethod \in {"auto", "playwright", "puppeteer"}

\* `preferredMethod === 'apify' || preferredMethod === 'auto'`.
ApifyBlockEnabled(preferredMethod) == preferredMethod \in {"apify", "auto"}

SmartFrame == UNCHANGED <<input, lastRead, onTweetLog, onReplyLog, lateWrites, ap, libVars>>

\* The code after the browser block up to its first await, run from the frame
\* o: the mode test, the token test, and the POST that starts the account run.
SmartApifyBlock(o) ==
    IF ~ApifyBlockEnabled(input.preferredMethod)
    THEN [o EXCEPT !.pc = "done", !.result = Result(FALSE, "no method", "none")]
    ELSE IF ~input.apifyToken
    THEN [o EXCEPT !.pc = "done", !.result = Result(FALSE, "no token", "none")]
    ELSE [o EXCEPT !.pc = "posted", !.apiStarted = TRUE]

\* getConfig throws (no database outside development): the mutation rejects.
SmartConfigFails ==
    /\ orch.pc = "idle"
    /\ orch' = [orch EXCEPT !.pc = "done", !.result = Rejected("config")]
    /\ UNCHANGED <<progressByUsername, errorWritten, hv, devRawCommentStore, persisted>>
    /\ SmartFrame

\* Both config reads succeed; the browser block is entered or skipped.
SmartStart ==
    /\ orch.pc = "idle"
    /\ IF BrowserBlockEnabled(input.preferredMethod)
       THEN /\ orch' = [orch EXCEPT !.pc = "race", !.browserAttempted = TRUE]
            /\ progressByUsername' = clearScrapeProgress(progressByUsername, UserKey)
            /\ hv' = [HvOff EXCEPT !.pc = "ctx", !.key = UserKey]
       ELSE /\ orch' = SmartApifyBlock(orch)
            /\ UNCHANGED <<progressByUsername, hv>>
    /\ UNCHANGED <<errorWritten, devRawCommentStore, persisted>>
    /\ SmartFrame

\* The hard timeout wins the race: the catch of the browser block.
SmartTimeout ==
    /\ orch.pc = "race"
    /\ hv.pc # "settled"
    /\ progressByUsername' = StoreFresh(progressByUsername, UserKey, Progress("error", "timeout", 0))
    /\ errorWritten' = errorWritten \cup {UserKey}
    /\ LET o == [orch EXCEPT !.timedOut = TRUE, !.browserFailed = TRUE,
                             !.playwrightError = "timeout"]
       IN  orch' = IF input.preferredMethod \in {"playwright", "puppeteer"}
                   THEN [o EXCEPT !.pc = "done", !.result = Result(FALSE, "timeout", "puppeteer")]
                   ELSE SmartApifyBlock(o)
    /\ UNCHANGED <<hv, devRawCommentStore, persisted>>
    /\ SmartFrame

\* insertRawComment of every root of a successful result, in order.
RECURSIVE InsertRoots(_, _)
InsertRoots(store, tweets) ==
    IF tweets = <<>> THEN store
    ELSE InsertRoots(insertRawComment(store, RootRow(Head(tweets))), Tail(tweets))

\* The harvester settles first.
SmartHarvestSettled ==
    /\ orch.pc = "race"
    /\ hv.pc = "settled"
    /\ IF hv.result.success
       THEN /\ orch' = [orch EXCEPT !.pc = "done", !.result = Result(TRUE, "", "puppeteer")]
            /\ devRawCommentStore' = InsertRoots(devRawCommentStore, hv.tweets)
            /\ persisted' = persisted \o [i \in 1..Len(hv.tweets) |->
                               [kind |-> "root", row |-> RootRow(hv.tweets[i]), root |-> hv.tweets[i]]]
       ELSE /\ LET o == [orch EXCEPT !.browserFailed = TRUE, !.playwrightError = hv.result.error]
               IN  orch' = IF input.preferredMethod = "auto" /\ input.apifyToken
                           THEN SmartApifyBlock(o)
                           ELSE [o EXCEPT !.pc = "done",
                                          !.result = Result(FALSE, hv.result.error, "puppeteer")]
            /\ UNCHANGED <<devRawCommentStore, persisted>>
    /\ UNCHANGED <<progressByUsername, errorWritten, hv>>
    /\ SmartFrame

SmartReturn(result) == orch' = [orch EXCEPT !.pc = "done", !.result = result, !.tweetIds = <<>>,
                                            !.idx = 0, !.itemsLeft = 0, !.itemsBudget = 0]

\* The API's ids are opaque as well: its datasets name a post it has not
\* returned before, and that no stored row carries, by the least unused name.
ApiKnownIds == StoreIds(devRawCommentStore) \cup (SeqIds(orch.tweetIds) \cap Ids)
NamedSeqInOrder(ids, known) ==
    \A i \in 1..Len(ids) : NamedInOrder(ids[i], known \cup SeqIds(SubSeq(ids, 1, i - 1)))

SmartApifyFrame == UNCHANGED <<progressByUsername, errorWritten, hv>>

\* The response to the POST.  A harvester that the hard timeout left running
\* is followed to its end first: SpecSmart covers the runs in which it settles
\* before the API answers.
SmartApifyPosted ==
    /\ orch.pc = "posted"
    /\ hv.pc \in {"off", "settled"}
    /\ \E outcome \in {"ok", "quota", "notok", "norun", "throw"} :
         IF outcome = "ok"
         THEN orch' = [orch EXCEPT !.pc = "accountRun"]
         ELSE SmartReturn(Result(FALSE, outcome, "apify"))
    /\ UNCHANGED <<devRawCommentStore, persisted>>
    /\ SmartApifyFrame /\ SmartFrame

\* The status polls of the account run (at most 60) and its dataset, whose
\* posts each carry their id.
SmartApifyTweets ==
    /\ orch.pc = "accountRun"
    /\ \/ \E outcome \in {"RUNNING", "FAILED", "throw", "empty"} :
            SmartReturn(Result(FALSE, outcome, "apify"))
       \/ \E ids \in SeqsUpTo(Ids, input.maxTweets) :
            /\ ids # <<>>
            /\ NamedSeqInOrder(ids, StoreIds(devRawCommentStore))
            /\ orch' = [orch EXCEPT !.pc = "replyRun", !.tweetIds = ids, !.idx = 1,
                                    !.itemsBudget = MaxAccountItems]
    /\ UNCHANGED <<devRawCommentStore, persisted>>
    /\ SmartApifyFrame /\ SmartFrame

\* One root of the account: its reply run is started and polled (at most 30
\* polls); any failure moves on to the next root.
SmartApifyReplies ==
    /\ orch.pc = "replyRun"
    /\ orch.idx <= Len(orch.tweetIds)
    /\ \/ orch' = [orch EXCEPT !.idx = orch.idx + 1]
       \/ \E n \in 0..orch.itemsBudget :
            orch' = [orch EXCEPT !.pc = "replyItems", !.itemsLeft = n,
                                 !.itemsBudget = orch.itemsBudget - n]
    /\ UNCHANGED <<devRawCommentStore, persisted>>
    /\ SmartApifyFrame /\ SmartFrame

\* `reply.id || String(Date.now()) + Math.random()`: an id no row has yet.
FreshId(store) == MaxId + 1 + Len(store)

\* One item of a reply dataset.  inReplyTo is only stored (`reply.inReplyTo ||
\* tweetId`), never compared: it is absent, the root, or some other post.
SmartApifyItem(id, inReplyTo) ==
    /\ orch.pc = "replyItems"
    /\ orch.itemsLeft > 0
    /\ NamedInOrder(id, ApiKnownIds)
    /\ NamedInOrder(inReplyTo, {orch.tweetIds[orch.idx]} \cap Ids)
    /\ orch' = [orch EXCEPT !.itemsLeft = orch.itemsLeft - 1]
    /\ LET tweetId == orch.tweetIds[orch.idx]
           row == RawComment(IF id # NoId THEN id ELSE FreshId(devRawCommentStore), tweetId,
                             IF inReplyTo # NoId THEN inReplyTo ELSE tweetId)
       IN  IF id = tweetId
           THEN UNCHANGED <<devRawCommentStore, persisted>>
           ELSE /\ devRawCommentStore' = insertRawComment(devRawCommentStore, row)
                /\ persisted' = Append(persisted, [kind |-> "reply", row |-> row, root |-> tweetId])
    /\ SmartApifyFrame /\ SmartFrame

\* The dataset of one root is exhausted, or iterating it throws.
SmartApifyItemsDone ==
    /\ orch.pc = "replyItems"
    /\ orch' = [orch EXCEPT !.pc = "replyRun", !.idx = orch.idx + 1, !.itemsLeft = 0]
    /\ UNCHANGED <<devRawCommentStore, persisted>>
    /\ SmartApifyFrame /\ SmartFrame

\* All roots done: the success result of the Apify block.
SmartApifyFinish ==
    /\ orch.pc = "replyRun"
    /\ orch.idx > Len(orch.tweetIds)
    /\ SmartReturn(Result(TRUE, "", "apify"))
    /\ UNCHANGED <<devRawCommentStore, persisted>>
    /\ SmartApifyFrame /\ SmartFrame

\* The options maxRepliesPerTweet and expandFoldedReplies keep their schema
\* defaults (0, false).  X_COOKIES is not configured: the cookie then comes
\* from the credential ring, so a run is made both with and without one.
InitSmart ==
    /\ input \in {[NoInput EXCEPT !.username = u, !.maxTweets = n, !.preferredMethod = m,
                                  !.apifyToken = tok] :
                     u \in {"", "u"}, n \in 1..MaxRoots, m \in PreferredMethods,
                     tok \in BOOLEAN}
    /\ progressByUsername = [k \in Keys |-> NoProgress]
    /\ lastRead = [k \in Keys |-> NoBox]
    /\ devRawCommentStore = <<>>
    /\ orch = OrchIdle
    /\ hv = HvOff
    /\ ap = ApOff
    /\ persisted = <<>>
    /\ onTweetLog = <<>>
    /\ onReplyLog = <<>>
    /\ errorWritten = {}
    /\ lateWrites = FALSE
    /\ LibIdle

NextSmart ==
    \/ SmartConfigFails
    \/ SmartStart
    \/ SmartTimeout
    \/ SmartHarvestSettled
    \/ SmartApifyPosted
    \/ SmartApifyTweets
    \/ SmartApifyReplies
    \/ \E id \in Ids \cup {NoId}, inReplyTo \in Ids \cup {NoId} : SmartApifyItem(id, inReplyTo)
    \/ SmartApifyItemsDone
    \/ SmartApifyFinish
    \/ AccountHarvester

SpecSmart == InitSmart /\ [][NextSmart]_vars

\* ------------------------------------------------ claims on the entry points
ReplyCalls == {i \in 1..Len(persisted) : persisted[i].kind = "reply"}

\* C2: on every harvest path the root record is persisted before any reply
\* record of that root's conversation: every insertRawComment call for a
\* reply is preceded by the call that stores the root of its conversation.
C2_RootPersistedFirst ==
    \A i \in ReplyCalls :
        \E j \in 1..(i - 1) : /\ persisted[j].kind = "root"
                              /\ persisted[j].row.replyId = persisted[i].root

\* C3: every persisted reply record carries, in its tweetId column, the id of
\* the root post under whose conversation it was harvested.
C3_ReplyRootId ==
    \A i \in ReplyCalls : persisted[i].row.tweetId = persisted[i].root

\* C4: when the harvest has finished, the ids emitted through onReply are
\* pairwise distinct and none of them is the id of the root post harvested.
C4_EmittedIdsUnique ==
    hv.pc = "settled" =>
        /\ \A i, j \in 1..Len(onReplyLog) : i # j => onReplyLog[i].id # onReplyLog[j].id
        /\ \A i \in 1..Len(onReplyLog) : onReplyLog[i].id # input.tweetId

\* C5: the single-post harvester emits the root with the requested id and
\* every reply with replyTo equal to the requested id.
C5_RootIsRequestedId ==
    /\ \A i \in 1..Len(onTweetLog) : onTweetLog[i] = input.tweetId
    /\ \A i \in 1..Len(onReplyLog) : onReplyLog[i].replyTo = input.tweetId

\* C6: when the hard timeout fires the progress record becomes an error record
\* with the timeout message and the stored rows stay; from then on the
\* record does not change any more (there is no later run in a behaviour).
C6_TimeoutErrorTerminal ==
    [][orch'.timedOut =>
          /\ progressByUsername'[TweetKey].stage = "error"
          /\ progressByUsername'[TweetKey].message = "timeout"
          /\ Len(devRawCommentStore') >= Len(devRawCommentStore)
          /\ \A i \in 1..Len(devRawCommentStore) : devRawCommentStore'[i] = devRawCommentStore[i]]_vars

\* C7: once the entry point has returned because of the hard timeout, the
\* harvester holds no open page or context and has written nothing since.
C7_TimeoutReleasesHarvest ==
    (orch.pc = "done" /\ orch.timedOut) =>
        /\ hv.page # "open"
        /\ hv.context # "open"
        /\ ~lateWrites

\* C8: a run that returned success = false has written a stage-error progress
\* record for its target.
C8_FailureWritesError ==
    (orch.pc = "done" /\ orch.result.kind = "value" /\ ~orch.result.success)
        => hv.key \in errorWritten

\* C9: the entry point never rejects; its result carries success and, on
\* failure, an error message and the method used.
C9_StructuredResult ==
    orch.pc = "done" =>
        /\ orch.result.kind = "value"
        /\ ~orch.result.success => (orch.result.error # "" /\ orch.result.method # "none")

\* --------------------------------------------------- claims on smartFetch
\* C10: smartFetch tries the browser harvester first whenever preferredMethod
\* is auto or a browser mode; the API client is started if and only if a token
\* is configured and preferredMethod is apify, or is auto and the browser
\* attempt has failed; with apify the browser harvester is never used, and with
\* a browser mode the API client is never used.
C10_MethodSelection ==
    LET preferredMethod == input.preferredMethod
        running == orch.pc # "idle" /\ orch.result.kind # "rejected"
        apiDue == /\ input.apifyToken
                  /\ \/ preferredMethod = "apify"
                     \/ preferredMethod = "auto" /\ orch.browserFailed
    IN  /\ (running /\ preferredMethod \in {"auto", "playwright", "puppeteer"})
              => orch.browserAttempted
        /\ orch.apiStarted => apiDue
        /\ (running /\ apiDue) => orch.apiStarted
        /\ preferredMethod = "apify" => ~orch.browserAttempted
        /\ preferredMethod \in {"playwright", "puppeteer"} => ~orch.apiStarted

\* An auto run whose browser attempt timed out has fallen back to the API
\* client, and the API run has returned a success.
C10_Witness ==
    /\ input.preferredMethod = "auto"
    /\ orch.timedOut
    /\ orch.browserAttempted
    /\ orch.apiStarted
    /\ orch.pc = "done"
    /\ orch.result.success
    /\ orch.result.method = "apify"

\* C11: in scrapeByTweetId, whenever the browser attempt has ended in a
\* terminal error (a returned failure or the hard timeout) and an API token is
\* configured, the API client has been invoked and the returned result is the
\* one its outcome determines.
C11_FallbackOnAnyError ==
    (/\ orch.pc = "done"
     /\ orch.result.kind = "value"
     /\ input.apifyToken
     /\ (orch.timedOut \/ orch.playwrightError # ""))
        => /\ ap.pc = "settled"
           /\ orch.result.success = ap.result.success
           /\ orch.result.method = "apify"

\* C12: when a harvest run has ended, on whatever exit path, every page and
\* every context that was created for it has been closed; this includes a
\* context whose creation outlasted the 15-second cap of the creation race.
C12_ContextsClosed ==
    hv.pc = "settled" =>
        /\ hv.page # "open"
        /\ hv.context \notin {"open", "orphan"}

\* C13: Phase A of the reply enumeration ends after a bounded number of
\* rounds whatever the page does: every round uses up scroll budget and no
\* step of Phase A, a click on an expansion button included, hands budget
\* back, so the budget the phase started with bounds the rounds it can run.
PhaseA == {"A_head", "A_cards", "A_break", "A_expand"}
C13_PhaseABounded ==
    [][(hv.pc \in PhaseA /\ hv'.pc \in PhaseA)
          => hv'.scrollBudget <= hv.scrollBudget]_vars

\* C14: the bottom sweep (Phase B) runs only after Phase A has ended, performs
\* at most maxBottomRounds rounds, and starts no further round once
\* maxBottomNoNew consecutive rounds have produced no new reply.
PhaseB == {"B_head", "B_cards", "B_break"}
HeadingMargin == 2
PageYs == {2 * k : k \in 0..MaxPageRows}
\* On a post page the root post comes first: a marker heading lies more than
\* the margin below the top of the document.
HeadingSets == {{}} \cup {{h} : h \in {y \in PageYs : y > HeadingMargin}}

MinOf(S) == CHOOSE m \in S : \A x \in S : m <= x

\* getCutoffY: the least absolute y of a marker heading that lies more than
\* the margin below the top of the viewport, Infinity when there is none.
getCutoffY(headings, scrollY) ==
    LET far == {absY \in headings : ~(absY <= scrollY + HeadingMargin)}
    IN  IF far = {} THEN Infinity ELSE MinOf(far)

\* ElementHandle.boundingBox(): the y of the box is relative to the viewport.
boundingBox(top, scrollY) == top - scrollY

\* The articles of the page in document order, as page.$$ returns them.
RECURSIVE ArticlesInOrder(_)
ArticlesInOrder(tops) ==
    IF tops = {} THEN <<>>
    ELSE <<MinOf(tops)>> \o ArticlesInOrder(tops \ {MinOf(tops)})

\* The harvester scrolls the window between two passes.
ScanScroll(y) ==
    /\ scan.pc = "head"
    /\ y # scan.scrollY
    /\ scan' = [scan EXCEPT !.scrollY = y]

\* const replyElements = await page.$$(...); const cutoffY = await getCutoffY(page)
ScanCutoff ==
    /\ scan.pc = "head"
    /\ scan' = [scan EXCEPT !.pc = "cards",
                            !.queue = ArticlesInOrder(scan.tops),
                            !.cutoffY = getCutoffY(scan.headings, scan.scrollY)]

\* if (box && Number.isFinite(cutoffY) && box.y > cutoffY) break;
ScanCardBreak ==
    /\ scan.pc = "cards"
    /\ scan.queue # <<>>
    /\ BelowCutoff(boundingBox(Head(scan.queue), scan.scrollY), scan.cutoffY)
    /\ scan' = [scan EXCEPT !.pc = "head", !.queue = <<>>]

\* Otherwise the card is read and emitted (a card already seen is skipped).
ScanCardEmit ==
    /\ scan.pc = "cards"
    /\ scan.queue # <<>>
    /\ ~BelowCutoff(boundingBox(Head(scan.queue), scan.scrollY), scan.cutoffY)
    /\ scan' = [scan EXCEPT !.queue = Tail(scan.queue),
                            !.emitted = scan.emitted \cup {Head(scan.queue)}]

ScanEnd ==
    /\ scan.pc = "cards"
    /\ scan.queue = <<>>
    /\ scan' = [scan EXCEPT !.pc = "head"]

ScanFrame ==
    UNCHANGED <<input, progressByUsername, lastRead, devRawCommentStore, orch, hv, ap,
                persisted, onTweetLog, onReplyLog, errorWritten, lateWrites,
                accountCookies, currentAccountIndex, nextLog, lastRingOp, devAnalyzedStore, now,
                lastComment, queryResult, toolVars>>

\* A loaded page: its marker headings and the tops of its post cards.
InitCutoff ==
    /\ EntryIdle
    /\ devRawCommentStore = <<>>
    /\ RingIdle
    /\ StoreIdle
    /\ ToolIdle
    /\ \E headings \in HeadingSets, tops \in SUBSET PageYs :
           scan = [pc |-> "head", headings |-> headings, tops |-> tops, scrollY |-> 0,
                   queue |-> <<>>, cutoffY |-> Infinity, emitted |-> {}]

NextCutoff ==
    \/ (\E y \in PageYs : ScanScroll(y)) /\ ScanFrame
    \/ ScanCutoff /\ ScanFrame
    \/ ScanCardBreak /\ ScanFrame
    \/ ScanCardEmit /\ ScanFrame
    \/ ScanEnd /\ ScanFrame

SpecCutoff == InitCutoff /\ [][NextCutoff]_vars

\* C15: no post card whose top lies below the recommendation heading is ever
\* emitted as a reply or collected as a root post, at any scroll position.
C15_NoCardBelowHeading ==
    \A top \in scan.emitted : ~(\E h \in scan.headings : top > h)

\* =========================================================================
\* The credential ring: accountCookies and currentAccountIndex under
\* arbitrary calls of its four operations.
\* =========================================================================

\* Cookie strings as callers pass them: empty, blank, padded and plain.
CookieInputs == {"", " ", "a", " a "}
Undefined == "undefined"

\* String.prototype.trim
trim(c) == IF c \in {"", " "} THEN "" ELSE IF c = " a " THEN "a" ELSE c

\* cookies.filter(c => c && c.trim())
RECURSIVE FilterNonBlank(_)
FilterNonBlank(cookies) ==
    IF cookies = <<>> THEN <<>>
    ELSE (IF trim(Head(cookies)) # "" THEN <<Head(cookies)>> ELSE <<>>)
             \o FilterNonBlank(Tail(cookies))

\* array.splice(index, 1), index counted from 0
Splice(seq, index) == SubSeq(seq, 1, index) \o SubSeq(seq, index + 2, Len(seq))

\* array[index], index counted from 0; undefined outside the array
ElementAt(seq, index) ==
    IF index >= 0 /\ index < Len(seq) THEN seq[index + 1] ELSE Undefined

\* The last n entries of a log.
LastN(log, n) == IF Len(log) <= n THEN log ELSE SubSeq(log, Len(log) - n + 1, Len(log))

RingOp(op) == [op |-> op, index |-> currentAccountIndex, size |-> Len(accountCookies),
               removed |-> 0]

setAccountCookies(cookies) ==
    /\ accountCookies' = FilterNonBlank(cookies)
    /\ currentAccountIndex' = 0
    /\ nextLog' = <<>>
    /\ lastRingOp' = RingOp("setAll")

addAccountCookie(cookie) ==
    IF trim(cookie) # ""
    THEN /\ accountCookies' = Append(accountCookies, trim(cookie))
         /\ nextLog' = <<>>
         /\ lastRingOp' = RingOp("add")
         /\ UNCHANGED currentAccountIndex
    ELSE UNCHANGED <<accountCookies, currentAccountIndex, nextLog, lastRingOp>>

removeAccountCookieNoReset(index) ==
    IF index >= 0 /\ index < Len(accountCookies)
    THEN /\ accountCookies' = Splice(accountCookies, index)
         /\ UNCHANGED currentAccountIndex
         /\ nextLog' = <<>>
         /\ lastRingOp' = [RingOp("removeAt") EXCEPT !.removed = index]
    ELSE UNCHANGED <<accountCookies, currentAccountIndex, nextLog, lastRingOp>>

removeAccountCookie(index) ==
    IF index >= 0 /\ index < Len(accountCookies)
    THEN /\ accountCookies' = Splice(accountCookies, index)
         /\ currentAccountIndex' =
                IF currentAccountIndex >= Len(accountCookies') THEN 0
                ELSE currentAccountIndex
         /\ nextLog' = <<>>
         /\ lastRingOp' = [RingOp("removeAt") EXCEPT !.removed = index]
    ELSE UNCHANGED <<accountCookies, currentAccountIndex, nextLog, lastRingOp>>

\* One call of next(): what it returned and the cursor it met.
NextEntry(cookie) == [index |-> currentAccountIndex, cookie |-> cookie]
NextWindow == IF Len(accountCookies) = 0 THEN 1 ELSE Len(accountCookies)

getNextAccountCookieNoAdvance ==
    /\ nextLog' = LastN(Append(nextLog,
                     NextEntry(IF Len(accountCookies) = 0 THEN Undefined
                               ELSE ElementAt(accountCookies, currentAccountIndex))),
                     NextWindow)
    /\ UNCHANGED <<accountCookies, currentAccountIndex, lastRingOp>>

getNextAccountCookie ==
    IF Len(accountCookies) = 0
    THEN /\ nextLog' = LastN(Append(nextLog, NextEntry(Undefined)), NextWindow)
         /\ UNCHANGED <<accountCookies, currentAccountIndex, lastRingOp>>
    ELSE /\ nextLog' = LastN(Append(nextLog,
                          NextEntry(ElementAt(accountCookies, currentAccountIndex))),
                          NextWindow)
         /\ currentAccountIndex' = (currentAccountIndex + 1) % Len(accountCookies)
         /\ UNCHANGED <<accountCookies, lastRingOp>>

RingFrame ==
    UNCHANGED <<input, progressByUsername, lastRead, devRawCommentStore, orch, hv, ap,
                persisted, onTweetLog, onReplyLog, errorWritten, lateWrites,
                devAnalyzedStore, now, lastComment, queryResult, scan, toolVars>>

InitRing ==
    /\ EntryIdle
    /\ devRawCommentStore = <<>>
    /\ LibIdle

NextRing ==
    \/ (\E cookies \in SeqsUpTo(CookieInputs, MaxAccounts) : setAccountCookies(cookies))
           /\ RingFrame
    \/ /\ Len(accountCookies) < MaxAccounts
       /\ \E cookie \in CookieInputs : addAccountCookie(cookie)
       /\ RingFrame
    \/ (\E index \in (0 - 1)..MaxAccounts : removeAccountCookie(index)) /\ RingFrame
    \/ getNextAccountCookie /\ RingFrame

SpecRing == InitRing /\ [][NextRing]_vars

\* C16: N >= 1 consecutive next() calls with no mutation in between return
\* every credential of the ring exactly once, each call returning the element
\* at the cursor and advancing the cursor modulo N; on an empty ring next()
\* returns nil and changes nothing.
C16_RoundRobin ==
    LET N == Len(accountCookies) IN
    /\ \A k \in 1..Len(nextLog) :
           /\ nextLog[k].cookie =
                  (IF N = 0 THEN Undefined ELSE accountCookies[nextLog[k].index + 1])
           /\ k < Len(nextLog) =>
                  nextLog[k + 1].index = (IF N = 0 THEN nextLog[k].index
                                          ELSE (nextLog[k].index + 1) % N)
    /\ nextLog # <<>> =>
           currentAccountIndex = (IF N = 0 THEN nextLog[Len(nextLog)].index
                                  ELSE (nextLog[Len(nextLog)].index + 1) % N)
    /\ (N >= 1 /\ Len(nextLog) = N) =>
           {nextLog[k].index + 1 : k \in 1..N} = 1..N

C16_Witness ==
    /\ Len(accountCookies) >= 2
    /\ Len(nextLog) = Len(accountCookies)
    /\ nextLog[1].index # 0

\* C17: after any sequence of setAll, add, removeAt and next the cursor is a
\* valid index: below the count when the ring has elements, 0 when it is
\* empty; a removal never leaves the cursor past the end.
C17_CursorValid ==
    IF Len(accountCookies) = 0 THEN currentAccountIndex = 0
    ELSE currentAccountIndex >= 0 /\ currentAccountIndex < Len(accountCookies)

C17_Witness ==
    /\ lastRingOp.op = "removeAt"
    /\ lastRingOp.size >= 2
    /\ lastRingOp.index = lastRingOp.size - 1
    /\ Len(accountCookies) = lastRingOp.size - 1
    /\ nextLog = <<>>
    /\ currentAccountIndex = 0

\* =========================================================================
\* The raw comment store under arbitrary observations: insertRawComment
\* called with any text, like count and creation instant, while time passes.
\* =========================================================================

LikeCounts == {0, 1}
CreatedAts == {0, 1}
NoRow == [replyId |-> NoId]
StorePost == 1      \* the post the observed replies belong to

\* The rows of the store that carry this replyId.
RowsOf(store, replyId) == {i \in 1..Len(store) : store[i].replyId = replyId}

HasMediaTag(text) == text \in {TaggedText, CorruptedText}

\* new Date() advances between two calls.
StoreTick ==
    /\ now < MaxClock
    /\ now' = now + 1
    /\ UNCHANGED <<devRawCommentStore, lastComment>>

\* One call of insertRawComment by any of its callers.
StoreInsert(comment) ==
    /\ NamedInOrder(comment.replyId, StoreIds(devRawCommentStore))
    /\ FindRow(devRawCommentStore, comment.replyId) # 0
           \/ Len(devRawCommentStore) < MaxStoreRows
    /\ devRawCommentStore' = insertRawComment(devRawCommentStore, comment)
    /\ lastComment' =
           [replyId |-> comment.replyId, comment |-> comment, at |-> now,
            before |-> IF FindRow(devRawCommentStore, comment.replyId) # 0
                       THEN devRawCommentStore[FindRow(devRawCommentStore, comment.replyId)]
                       ELSE NoRow]
    /\ UNCHANGED now

Observations ==
    {Comment(replyId, StorePost, IF replyId = StorePost THEN NoId ELSE StorePost,
             text, createdAt, likeCount) :
        replyId \in Ids, text \in Texts, createdAt \in CreatedAts,
        likeCount \in LikeCounts \cup {NoLike}}

StoreFrame ==
    UNCHANGED <<input, progressByUsername, lastRead, orch, hv, ap,
                persisted, onTweetLog, onReplyLog, errorWritten, lateWrites,
                accountCookies, currentAccountIndex, nextLog, lastRingOp,
                devAnalyzedStore, queryResult, scan, toolVars>>

InitStore ==
    /\ EntryIdle
    /\ devRawCommentStore = <<>>
    /\ LibIdle

NextStore ==
    \/ StoreTick /\ StoreFrame
    \/ (\E comment \in Observations : StoreInsert(comment)) /\ StoreFrame

SpecStore == InitStore /\ [][NextStore]_vars

\* The row the last call of insertRawComment wrote.
LastRow == devRawCommentStore[FindRow(devRawCommentStore, lastComment.replyId)]
Reinserted == lastComment.replyId # NoId /\ lastComment.before # NoRow

\* C18: persisting a record whose id already exists leaves exactly one record
\* for that id, with the like count of the most recent observation and a
\* refreshed fetched-at instant, and leaves its createdAt unchanged.
C18_IdempotentUpsert ==
    Reinserted =>
        /\ Cardinality(RowsOf(devRawCommentStore, lastComment.replyId)) = 1
        /\ LastRow.likeCount =
               (IF lastComment.comment.likeCount # NoLike
                THEN lastComment.comment.likeCount ELSE lastComment.before.likeCount)
        /\ LastRow.fetchedAt = lastComment.at
        /\ LastRow.createdAt = lastComment.before.createdAt

C18_Witness ==
    /\ Reinserted
    /\ Len(devRawCommentStore) = MaxStoreRows
    /\ lastComment.comment.likeCount # NoLike
    /\ lastComment.comment.likeCount # lastComment.before.likeCount
    /\ lastComment.comment.createdAt # lastComment.before.createdAt
    /\ lastComment.at # lastComment.before.fetchedAt

\* C19: once a stored text carries a media placeholder tag, the stored text
\* of that id still carries the tag after any later upsert of the same id.
C19_MediaTagSurvives ==
    (Reinserted /\ HasMediaTag(lastComment.before.text)) => HasMediaTag(LastRow.text)

\* =========================================================================
\* The read interfaces of the raw comment store, over stores that the
\* harvest paths fill (root row first, then its replies) and an analyser
\* that marks rows as analysed.
\* =========================================================================

Limits == {1, 10}
AnalyzedFilters == {"any", "yes", "no"}

IsReply(r) == r.replyId # r.tweetId
OfTweet(r, tweetId) == tweetId = NoId \/ r.tweetId = tweetId
Slice(rows, limit) == SubSeq(rows, 1, IF Len(rows) < limit THEN Len(rows) ELSE limit)
RootIds(store) == {store[i].replyId : i \in {j \in 1..Len(store) : ~IsReply(store[j])}}

\* getCommentsWithAnalysis (development store).  All rows of these stores carry
\* the same createdAt, so the stable sort leaves the order of the store.
getCommentsWithAnalysis(store, analyzed, tweetId, analyzedFilter, limit) ==
    LET Keep(r) == /\ IsReply(r)
                   /\ OfTweet(r, tweetId)
                   /\ analyzedFilter = "yes" => r.replyId \in analyzed
                   /\ analyzedFilter = "no" => r.replyId \notin analyzed
    IN  Slice(SelectSeq(store, Keep), limit)

\* getCommentStats: one entry for each row it counts.
getCommentStats(store, tweetId) ==
    LET Keep(r) == IsReply(r) /\ OfTweet(r, tweetId)
    IN  SelectSeq(store, Keep)

\* getTopCommenters: the rows that add to an author's count.
getTopCommenters(store, tweetId) ==
    LET Keep(r) == ~(r.replyId = r.tweetId) /\ ~(tweetId # NoId /\ r.tweetId # tweetId)
    IN  SelectSeq(store, Keep)

\* getAllCommentsForExport: getCommentsWithAnalysis without a limit.
getAllCommentsForExport(store, analyzed, tweetId, analyzedFilter) ==
    getCommentsWithAnalysis(store, analyzed, tweetId, analyzedFilter, Len(store))

\* getUnanalyzedComments: the rows without an analysis, up to the limit.
getUnanalyzedComments(store, analyzed, limit) ==
    LET Keep(r) == r.replyId \notin analyzed
    IN  Slice(SelectSeq(store, Keep), limit)

\* The argument of a call of insertRawComment and the row it met.
CallRecord(comment) ==
    [replyId |-> comment.replyId, comment |-> comment, at |-> now,
     before |-> IF FindRow(devRawCommentStore, comment.replyId) # 0
                THEN devRawCommentStore[FindRow(devRawCommentStore, comment.replyId)]
                ELSE [replyId |-> NoId]]

\* A harvest path persists a root post (onTweet).
QueryInsertRoot(id) ==
    /\ NamedInOrder(id, StoreIds(devRawCommentStore))
    /\ devRawCommentStore' = insertRawComment(devRawCommentStore, RootRow(id))
    /\ lastComment' = CallRecord(RootRow(id))
    /\ UNCHANGED <<devAnalyzedStore, queryResult>>

\* A harvest path persists a reply of a root post it has persisted.
QueryInsertReply(id, tweetId) ==
    /\ tweetId \in RootIds(devRawCommentStore)
    /\ id # tweetId
    /\ NamedInOrder(id, StoreIds(devRawCommentStore))
    /\ devRawCommentStore' =
           insertRawComment(devRawCommentStore, RawComment(id, tweetId, tweetId))
    /\ lastComment' = CallRecord(RawComment(id, tweetId, tweetId))
    /\ UNCHANGED <<devAnalyzedStore, queryResult>>

\* insertAnalyzedComment for a stored row.
QueryAnalyze(replyId) ==
    /\ replyId \in StoreIds(devRawCommentStore)
    /\ devAnalyzedStore' = devAnalyzedStore \cup {replyId}
    /\ UNCHANGED <<devRawCommentStore, queryResult, lastComment>>

QueryRead(op, rows) ==
    /\ queryResult' = [op |-> op, rows |-> rows]
    /\ UNCHANGED <<devRawCommentStore, devAnalyzedStore, lastComment>>

QueryList ==
    \E tweetId \in Ids \cup {NoId}, analyzedFilter \in AnalyzedFilters, limit \in Limits :
        QueryRead("list", getCommentsWithAnalysis(devRawCommentStore, devAnalyzedStore,
                                                   tweetId, analyzedFilter, limit))
QueryStats ==
    \E tweetId \in Ids \cup {NoId} :
        QueryRead("stats", getCommentStats(devRawCommentStore, tweetId))
QueryTopCommenters ==
    \E tweetId \in Ids \cup {NoId} :
        QueryRead("top", getTopCommenters(devRawCommentStore, tweetId))
QueryExport ==
    \E tweetId \in Ids \cup {NoId}, analyzedFilter \in AnalyzedFilters :
        QueryRead("export", getAllCommentsForExport(devRawCommentStore, devAnalyzedStore,
                                                     tweetId, analyzedFilter))
QueryUnanalyzed ==
    \E limit \in Limits :
        QueryRead("unanalyzed", getUnanalyzedComments(devRawCommentStore, devAnalyzedStore,
                                                       limit))

QueryFrame ==
    UNCHANGED <<input, progressByUsername, lastRead, orch, hv, ap,
                persisted, onTweetLog, onReplyLog, errorWritten, lateWrites,
                accountCookies, currentAccountIndex, nextLog, lastRingOp,
                now, scan, toolVars>>

InitQuery ==
    /\ EntryIdle
    /\ devRawCommentStore = <<>>
    /\ LibIdle

NextQuery ==
    \/ (\E id \in Ids : QueryInsertRoot(id)) /\ QueryFrame
    \/ (\E id \in Ids, tweetId \in Ids : QueryInsertReply(id, tweetId)) /\ QueryFrame
    \/ (\E replyId \in Ids : QueryAnalyze(replyId)) /\ QueryFrame
    \/ QueryList /\ QueryFrame
    \/ QueryStats /\ QueryFrame
    \/ QueryTopCommenters /\ QueryFrame
    \/ QueryExport /\ QueryFrame
    \/ QueryUnanalyzed /\ QueryFrame

SpecQuery == InitQuery /\ [][NextQuery]_vars

\* C20: no read interface that returns or counts replies (list, stats, top
\* commenters, export, un-analysed queue) returns or counts a record whose
\* replyId equals its rootId.
C20_NoRootInReplyQueries ==
    \A i \in 1..Len(queryResult.rows) :
        queryResult.rows[i].replyId # queryResult.rows[i].tweetId

\* =========================================================================
\* Pacing: the configuration, getDelay, and gotoWithRetry.
\* =========================================================================

harvestVars == <<input, progressByUsername, lastRead, devRawCommentStore, orch, hv, ap,
                 persisted, onTweetLog, onReplyLog, errorWritten, lateWrites>>
coreLibVars == <<accountCookies, currentAccountIndex, nextLog, lastRingOp, devAnalyzedStore,
                 now, lastComment, queryResult, scan>>

\* Math.floor(Math.random() * n) + min, for n = max - min + 1: Math.random()
\* is any number in [0, 1).
RandomExtras(min, max) ==
    LET n == max - min + 1
    IN  IF n > 0 THEN {min + k : k \in 0..(n - 1)} ELSE {min + k : k \in n..0}

\* getDelay(baseDelay): the values it can return under this configuration.
getDelay(config, baseDelay) ==
    IF ~config.randomDelay THEN {baseDelay}
    ELSE {baseDelay + randomExtra :
             randomExtra \in RandomExtras(config.randomDelayRange[1], config.randomDelayRange[2])}

\* ------------------------------------------------------------ gotoWithRetry
\* Messages of the errors page.goto throws, and the test
\* /ERR_CONNECTION_CLOSED|ERR_CONNECTION_RESET|ERR_NETWORK|timeout|Timeout/i
RetryableMessages ==
    {"net::ERR_CONNECTION_CLOSED", "net::ERR_CONNECTION_RESET", "net::ERR_NETWORK_CHANGED",
     "Navigation timeout of 45000 ms exceeded", "TimeoutError"}
GotoMessages == RetryableMessages \cup {"net::ERR_NAME_NOT_RESOLVED", "Target closed"}
isRetryable(msg) == msg \in RetryableMessages

maxAttempts == 3

NavStart ==
    /\ nav.pc = "off"
    /\ nav' = [NavOff EXCEPT !.pc = "try", !.attempt = 1]

\* await page.goto(url, ...) resolves: return.
NavGotoOk ==
    /\ nav.pc = "try"
    /\ nav' = [nav EXCEPT !.pc = "returned", !.attempts = nav.attempts + 1]

\* page.goto throws: wait and continue, or rethrow.
NavGotoThrows(msg, delay) ==
    /\ nav.pc = "try"
    /\ IF nav.attempt < maxAttempts /\ isRetryable(msg)
       THEN /\ delay \in getDelay(currentConfig, 30 + nav.attempt * 20)
            /\ nav' = [nav EXCEPT !.attempt = nav.attempt + 1,
                                  !.attempts = nav.attempts + 1,
                                  !.error = msg,
                                  !.pauses = Append(nav.pauses, delay)]
       ELSE /\ delay = 0
            /\ nav' = [nav EXCEPT !.pc = "thrown", !.attempts = nav.attempts + 1,
                                  !.error = msg]

\* The caller navigates again.
NavReset ==
    /\ nav.pc \in {"returned", "thrown"}
    /\ nav' = NavOff

NavFrame == UNCHANGED <<harvestVars, coreLibVars, currentConfig, lastDelay, browserVars, emitVars>>

\* Jitter as the default configuration has it, or switched off.
InitGoto ==
    /\ EntryIdle
    /\ devRawCommentStore = <<>>
    /\ CoreLibIdle
    /\ currentConfig \in {DEFAULT_SCRAPE_CONFIG,
                          [DEFAULT_SCRAPE_CONFIG EXCEPT !.randomDelay = FALSE]}
    /\ lastDelay = NoDelay
    /\ NavIdle
    /\ BrowserIdle
    /\ EmitIdle

MaxPause == 30 + maxAttempts * 20 + DEFAULT_SCRAPE_CONFIG.randomDelayRange[2]

NextGoto ==
    \/ NavStart /\ NavFrame
    \/ NavGotoOk /\ NavFrame
    \/ (\E msg \in GotoMessages, delay \in 0..MaxPause : NavGotoThrows(msg, delay)) /\ NavFrame
    \/ NavReset /\ NavFrame

SpecGoto == InitGoto /\ [][NextGoto]_vars

\* C21: gotoWithRetry makes at most three attempts, re-attempts only after a
\* retryable error, rethrows any other error at once, and with jitter
\* disabled pauses 3 s, 5 s, 7 s before successive re-attempts.
C21_GotoRetry ==
    /\ nav.attempts <= 3
    /\ (nav.attempts > 1 \/ nav.pauses # <<>>) => isRetryable(nav.error) \/ nav.pc = "thrown"
    /\ (nav.pc = "thrown" /\ ~isRetryable(nav.error)) => nav.attempts = Len(nav.pauses) + 1
    /\ ~currentConfig.randomDelay =>
           \A k \in 1..Len(nav.pauses) : nav.pauses[k] = <<30, 50, 70>>[k]

\* What a step of the client may do while it polls and after it has failed.
PollStep ==
    /\ (ap.pc = "poll" /\ ap'.pc = "poll" /\ ap'.attempt = ap.attempt + 1)
           => ap.runStatus = "RUNNING"
    /\ (ap.pc = "poll" /\ ap' # ap)
           => (persisted' = persisted /\ devRawCommentStore' = devRawCommentStore)
    /\ (ap.pc = "settled" /\ ap.runStatus # "SUCCEEDED" /\ hv.pc \in {"off", "settled"})
           => (persisted' = persisted /\ devRawCommentStore' = devRawCommentStore)

\* C22: the reply API client issues at most 80 status polls per run, 3 s
\* apart, stops polling as soon as the reported status is not RUNNING, and
\* unless the final status is SUCCEEDED (also when the run is still RUNNING
\* after the 80th poll) fails without a dataset fetch and without a record.
C22_PollBounded ==
    /\ [](/\ ap.attempt <= ApifyPollAttempts
          /\ (ap.pc = "poll" /\ ap.attempt > 0) => ap.pollPause = 30
          /\ ap.pc = "items" => ap.runStatus = "SUCCEEDED"
          /\ (ap.pc = "settled" /\ ap.runStatus # "SUCCEEDED") => ~ap.result.success)
    /\ [][PollStep]_vars

C22_Witness ==
    /\ ap.pc = "settled"
    /\ ap.result.error = "status"
    /\ ap.runStatus = "RUNNING"

\* C23: after the fallback API client returns success for a root id, the
\* store holds a root record for that id (replyId = rootId = that id),
\* whether or not the dataset contained the root item.
C23_RootRecordAfterApi ==
    (ap.pc = "settled" /\ ap.result.success) =>
        \E i \in 1..Len(devRawCommentStore) :
            /\ devRawCommentStore[i].replyId = input.tweetId
            /\ devRawCommentStore[i].tweetId = input.tweetId

\* =========================================================================
\* The shared browser: concurrent calls of getBrowser, the configuration
\* routes that change the proxy, and closeBrowser.
\* =========================================================================

Proxies == {"", "p1", "p2"}

Connected(b) == b # 0 /\ launched[b].connected

\* A change of the proxy value: calls of getBrowser in progress are no longer
\* calls made after the last change.
MarkStale == [p \in Acquirers |-> [acq[p] EXCEPT !.fresh = FALSE]]

\* getBrowser is called.
AcqStart(p) ==
    /\ acq[p].pc = "idle"
    /\ acq' = [acq EXCEPT ![p] = [AcqIdle EXCEPT !.pc = "check", !.fresh = (route.pc = "idle")]]
    /\ UNCHANGED <<browserInstance, playwrightProxy, launched, route>>

\* if (!browserInstance || !browserInstance.connected) ... else return browserInstance
AcqCheck(p) ==
    /\ acq[p].pc = "check"
    /\ acq' = [acq EXCEPT ![p] =
                  IF ~Connected(browserInstance)
                  THEN [@ EXCEPT !.pc = "config"]
                  ELSE [@ EXCEPT !.pc = "done", !.got = browserInstance]]
    /\ UNCHANGED <<browserInstance, playwrightProxy, launched, route>>

\* const configProxy = await getConfig(...): the proxy the launch will use.
AcqReadConfig(p) ==
    /\ acq[p].pc = "config"
    /\ acq' = [acq EXCEPT ![p] = [@ EXCEPT !.pc = "launch", !.proxyServer = playwrightProxy]]
    /\ UNCHANGED <<browserInstance, playwrightProxy, launched, route>>

\* browserInstance = await puppeteer.launch(opts), or every candidate fails;
\* then `if (!browserInstance) throw`, `return browserInstance`.
AcqLaunch(p, ok) ==
    /\ acq[p].pc = "launch"
    /\ IF ok
       THEN /\ Len(launched) < MaxLaunches
            /\ launched' = Append(launched, [proxy |-> acq[p].proxyServer, connected |-> TRUE])
            /\ browserInstance' = Len(launched) + 1
            /\ acq' = [acq EXCEPT ![p] = [@ EXCEPT !.pc = "done", !.got = Len(launched) + 1]]
       ELSE /\ acq' = [acq EXCEPT ![p] =
                          IF browserInstance = 0 THEN [@ EXCEPT !.pc = "thrown"]
                          ELSE [@ EXCEPT !.pc = "done", !.got = browserInstance]]
            /\ UNCHANGED <<browserInstance, launched>>
    /\ UNCHANGED <<playwrightProxy, route>>

\* The caller is done with the call.
AcqReturn(p) ==
    /\ acq[p].pc \in {"done", "thrown"}
    /\ acq' = [acq EXCEPT ![p] = AcqIdle]
    /\ UNCHANGED <<browserInstance, playwrightProxy, launched, route>>

\* A browser process exits by itself.
BrowserDisconnects(b) ==
    /\ launched[b].connected
    /\ launched' = [launched EXCEPT ![b].connected = FALSE]
    /\ UNCHANGED <<browserInstance, playwrightProxy, acq, route>>

\* config.set with the proxy key: setConfig, then closeBrowser.
RouteSet(value) ==
    /\ route.pc = "idle"
    /\ playwrightProxy' = value
    /\ acq' = IF value # playwrightProxy THEN MarkStale ELSE acq
    /\ route' = [pc |-> "closeBrowser"]
    /\ UNCHANGED <<browserInstance, launched>>

\* closeBrowser: if (browserInstance) { await browserInstance.close() ...
RouteCloseBrowser ==
    /\ route.pc = "closeBrowser"
    /\ IF browserInstance # 0
       THEN /\ launched' = [launched EXCEPT ![browserInstance].connected = FALSE]
            /\ route' = [pc |-> "closed"]
       ELSE /\ route' = RouteIdle
            /\ UNCHANGED launched
    /\ UNCHANGED <<browserInstance, playwrightProxy, acq>>

\* ... browserInstance = null }
RouteCloseDone ==
    /\ route.pc = "closed"
    /\ browserInstance' = 0
    /\ route' = RouteIdle
    /\ UNCHANGED <<playwrightProxy, launched, acq>>

\* config.delete with the proxy key: deleteConfig only.
RouteDelete ==
    /\ route.pc = "idle"
    /\ playwrightProxy' = ""
    /\ acq' = IF playwrightProxy # "" THEN MarkStale ELSE acq
    /\ UNCHANGED <<browserInstance, launched, route>>

BrowserFrame == UNCHANGED <<harvestVars, coreLibVars, currentConfig, lastDelay, nav, emitVars>>

InitBrowser ==
    /\ EntryIdle
    /\ devRawCommentStore = <<>>
    /\ LibIdle

NextBrowser ==
    \/ (\E p \in Acquirers : AcqStart(p)) /\ BrowserFrame
    \/ (\E p \in Acquirers : AcqCheck(p)) /\ BrowserFrame
    \/ (\E p \in Acquirers : AcqReadConfig(p)) /\ BrowserFrame
    \/ (\E p \in Acquirers, ok \in BOOLEAN : AcqLaunch(p, ok)) /\ BrowserFrame
    \/ (\E p \in Acquirers : AcqReturn(p)) /\ BrowserFrame
    \/ (\E b \in 1..Len(launched) : BrowserDisconnects(b)) /\ BrowserFrame
    \/ (\E value \in Proxies \ {""} : RouteSet(value)) /\ BrowserFrame
    \/ RouteCloseBrowser /\ BrowserFrame
    \/ RouteCloseDone /\ BrowserFrame
    \/ RouteDelete /\ BrowserFrame

SpecBrowser == InitBrowser /\ [][NextBrowser]_vars

\* C24: after any change of the proxy configuration (set to a different value
\* or deleted), the next browser acquire never returns a browser instance
\* that was launched under the previous proxy value.
C24_ProxyChangeInvalidates ==
    \A p \in Acquirers :
        (acq[p].pc = "done" /\ acq[p].fresh) => launched[acq[p].got].proxy = playwrightProxy

\* C25: under any interleaving of concurrent acquires and closes at most one
\* launched browser instance exists at a time; two concurrent acquires on an
\* empty cache never both launch a browser.
C25_OneBrowser ==
    Cardinality({b \in 1..Len(launched) : launched[b].connected}) <= 1

\* =========================================================================
\* The pacing configuration under its two routes, and calls of getDelay.
\* =========================================================================

SCRAPE_PRESETS ==
    [ultraSlow |-> [pageLoadDelay |-> 50, scrollDelay |-> 40, betweenTweetsDelay |-> 100,
                    randomDelay |-> TRUE, randomDelayRange |-> <<20, 50>>],
     slow |-> [pageLoadDelay |-> 30, scrollDelay |-> 25, betweenTweetsDelay |-> 50,
               randomDelay |-> TRUE, randomDelayRange |-> <<10, 30>>],
     normal |-> [pageLoadDelay |-> 20, scrollDelay |-> 15, betweenTweetsDelay |-> 30,
                 randomDelay |-> TRUE, randomDelayRange |-> <<5, 15>>],
     fast |-> [pageLoadDelay |-> 10, scrollDelay |-> 8, betweenTweetsDelay |-> 15,
               randomDelay |-> TRUE, randomDelayRange |-> <<2, 8>>]]

\* applyScrapePreset(preset)
applyScrapePreset(preset) ==
    /\ currentConfig' = SCRAPE_PRESETS[preset]
    /\ lastDelay' = NoDelay

\* The input of the setScrapeConfig route as its schema admits it: every field
\* optional (Absent), numbers at the ends of their ranges.
Absent == 0 - 1
ScrapeConfigInputs ==
    [pageLoadDelay : {Absent, 10}, scrollDelay : {Absent, 100},
     betweenTweetsDelay : {Absent}, randomDelay : {"absent", "true", "false"},
     randomDelayMin : {Absent, 5, 100}, randomDelayMax : {Absent, 10, 150}]

\* The route builds a partial configuration and setScrapeConfig merges it.
setScrapeConfigRoute(inp) ==
    /\ currentConfig' =
           [pageLoadDelay |-> IF inp.pageLoadDelay # Absent THEN inp.pageLoadDelay
                              ELSE currentConfig.pageLoadDelay,
            scrollDelay |-> IF inp.scrollDelay # Absent THEN inp.scrollDelay
                            ELSE currentConfig.scrollDelay,
            betweenTweetsDelay |-> IF inp.betweenTweetsDelay # Absent
                                   THEN inp.betweenTweetsDelay
                                   ELSE currentConfig.betweenTweetsDelay,
            randomDelay |-> IF inp.randomDelay # "absent" THEN inp.randomDelay = "true"
                            ELSE currentConfig.randomDelay,
            randomDelayRange |->
                IF inp.randomDelayMin # Absent /\ inp.randomDelayMax # Absent
                THEN <<inp.randomDelayMin, inp.randomDelayMax>>
                ELSE currentConfig.randomDelayRange]
    /\ lastDelay' = NoDelay

\* wait(currentConfig.scrollDelay): one call of getDelay.
DelayCall(delay) ==
    /\ delay \in getDelay(currentConfig, currentConfig.scrollDelay)
    /\ lastDelay' = [baseDelay |-> currentConfig.scrollDelay, delay |-> delay,
                     config |-> currentConfig, called |-> TRUE]
    /\ UNCHANGED currentConfig

PacingFrame == UNCHANGED <<harvestVars, coreLibVars, nav, browserVars, emitVars>>

InitPacing ==
    /\ EntryIdle
    /\ devRawCommentStore = <<>>
    /\ LibIdle

MaxDelay == 100 + 150

NextPacing ==
    \/ (\E preset \in DOMAIN SCRAPE_PRESETS : applyScrapePreset(preset)) /\ PacingFrame
    \/ (\E inp \in ScrapeConfigInputs : setScrapeConfigRoute(inp)) /\ PacingFrame
    \/ (\E delay \in 0..MaxDelay : DelayCall(delay)) /\ PacingFrame

SpecPacing == InitPacing /\ [][NextPacing]_vars

\* C26: for every pacing configuration reachable through applyScrapePreset
\* and the setScrapeConfig route, delay(base) equals base when randomJitter is
\* off and lies within [base + jitterMin, base + jitterMax] when it is on.
C26_DelayRange ==
    lastDelay.called =>
        IF ~lastDelay.config.randomDelay THEN lastDelay.delay = lastDelay.baseDelay
        ELSE /\ lastDelay.delay >= lastDelay.baseDelay + lastDelay.config.randomDelayRange[1]
             /\ lastDelay.delay <= lastDelay.baseDelay + lastDelay.config.randomDelayRange[2]


\* =========================================================================
\* The wall clock of one harvest: passes over the reply cards, the onReply
\* call of every new card, and the waits between passes.
\* =========================================================================

MaxNewCards == 2    \* new reply cards one pass can meet
MaxPasses == 2      \* passes of one harvest
MaxReadTime == 1    \* longest time reading one card from the page takes, in tenths of a second

\* const replyScrollDelayMs = Number(env ?? (isDevMode ? 1200 : 4800))
ReplyScrollDelays == {12, 48}

\* The harvest starts: "tweet" is scrapeRepliesByTweetId, "account" is the
\* reply loop of scrapeUserComments.
PaceStart(harvester, replyScrollDelayMs) ==
    /\ pace.pc = "off"
    /\ pace' = [PaceOff EXCEPT !.pc = "pass", !.harvester = harvester,
                               !.replyScrollDelayMs = replyScrollDelayMs]

\* page.$$('article[data-testid="tweet"]') returns the cards; `pending` of
\* them are new.
PacePass(newCards) ==
    /\ pace.pc = "pass"
    /\ pace.passes < MaxPasses
    /\ pace' = [pace EXCEPT !.pc = "cards", !.pending = newCards, !.passes = @ + 1]

\* One iteration of the loop over the cards for a new card: the fields are
\* read from the page (no wait() is called) and onReply(reply) is awaited.
PaceEmit(readTime) ==
    /\ pace.pc = "cards"
    /\ pace.pending > 0
    /\ LET t == pace.clock + readTime
       IN  pace' = [pace EXCEPT !.clock = t, !.pending = @ - 1, !.emitted = @ + 1,
                                !.lastEmitAt = t,
                                !.gap = IF pace.emitted > 0 THEN t - pace.lastEmitAt ELSE 0]

\* The loop over the cards is over: the page is scrolled and the harvester
\* waits. scrapeRepliesByTweetId: wait(1500) after scrollIntoView when the
\* page has cards, then wait(replyScrollDelayMs). scrapeUserComments:
\* wait(2000) when a show-more button was clicked, then
\* wait(currentConfig.scrollDelay).
PaceScroll(extra, delay) ==
    /\ pace.pc = "cards"
    /\ pace.pending = 0
    /\ extra \in {0} \cup getDelay(currentConfig,
                                   IF pace.harvester = "tweet" THEN 15 ELSE 20)
    /\ delay \in getDelay(currentConfig,
                          IF pace.harvester = "tweet" THEN pace.replyScrollDelayMs
                          ELSE currentConfig.scrollDelay)
    /\ pace' = [pace EXCEPT !.pc = "pass", !.clock = @ + extra + delay]

\* The passes are over.
PaceDone ==
    /\ pace.pc = "pass"
    /\ pace' = [pace EXCEPT !.pc = "done"]

PaceReset ==
    /\ pace.pc = "done"
    /\ pace' = PaceOff

PaceFrame ==
    UNCHANGED <<harvestVars, coreLibVars, currentConfig, lastDelay, nav, browserVars, lastCount, listing, tour, snapshot>>

\* Jitter is disabled; scrollDelay takes the default and the ends of the
\* range the setScrapeConfig route admits.
InitEmit ==
    /\ EntryIdle
    /\ devRawCommentStore = <<>>
    /\ CoreLibIdle
    /\ currentConfig \in {[DEFAULT_SCRAPE_CONFIG EXCEPT !.randomDelay = FALSE, !.scrollDelay = d] :
                              d \in {10, 25, 100}}
    /\ lastDelay = NoDelay
    /\ NavIdle
    /\ BrowserIdle
    /\ EmitIdle

NextEmit ==
    \/ (\E h \in {"tweet", "account"}, d \in ReplyScrollDelays : PaceStart(h, d)) /\ PaceFrame
    \/ (\E n \in 0..MaxNewCards : PacePass(n)) /\ PaceFrame
    \/ (\E t \in 0..MaxReadTime : PaceEmit(t)) /\ PaceFrame
    \/ (\E extra \in 0..20, delay \in 0..100 : PaceScroll(extra, delay)) /\ PaceFrame
    \/ PaceDone /\ PaceFrame
    \/ PaceReset /\ PaceFrame

SpecEmit == InitEmit /\ [][NextEmit]_vars

\* C27: with jitter disabled, the wall-clock time elapsed between any two
\* consecutive reply emissions (onReply calls) of a run is at least
\* scrollDelayMs.
C27_EmissionGap ==
    (~currentConfig.randomDelay /\ pace.emitted >= 2) => pace.gap >= currentConfig.scrollDelay


\* C28: when the reply page matches the login-wall predicate, the run of
\* scrapeByTweetId ends with a terminal error carrying the reconfigure-cookies
\* message (success = false, progress stage error) and no reply is persisted
\* for that root by that run.
C28_LoginWallTerminal ==
    (orch.pc = "done" /\ ~orch.timedOut /\ hv.result.error = "loginwall") =>
        /\ ~orch.result.success
        /\ orch.result.error = "loginwall" \/ orch.playwrightError = "loginwall"
        /\ progressByUsername[TweetKey].stage = "error"
        /\ \A i \in 1..Len(persisted) : persisted[i].kind # "reply"


\* =========================================================================
\* parseCount / parseCountR: the engagement count texts of a card, as
\* sequences of characters, and the numbers the harvesters make of them.
\* =========================================================================

MaxCountLen == 3    \* longest count text drawn from the alphabet
CountChars == {"0", "1", "2", "7", ".", ",", "K", "M"}
NullText == <<"null">>    \* elTextContent returned null
NaN == 0 - 1              \* the number NaN (no count is negative)
DigitValue ==
    [c \in {"0", "1", "2", "3", "4", "5", "6", "7", "8", "9"} |->
        CASE c = "0" -> 0 [] c = "1" -> 1 [] c = "2" -> 2 [] c = "3" -> 3 [] c = "4" -> 4
          [] c = "5" -> 5 [] c = "6" -> 6 [] c = "7" -> 7 [] c = "8" -> 8 [] c = "9" -> 9]

\* The longest prefix of s made of decimal digits.
RECURSIVE LeadingDigits(_)
LeadingDigits(s) ==
    IF s = <<>> \/ Head(s) \notin DOMAIN DigitValue THEN <<>>
    ELSE <<Head(s)>> \o LeadingDigits(Tail(s))

RECURSIVE DecimalValue(_)
DecimalValue(ds) ==
    IF ds = <<>> THEN 0
    ELSE DecimalValue(SubSeq(ds, 1, Len(ds) - 1)) * 10 + DigitValue[ds[Len(ds)]]

\* parseInt(num): the leading digits, NaN when there are none.
parseInt(num) ==
    LET ds == LeadingDigits(num)
    IN  IF ds = <<>> THEN NaN ELSE DecimalValue(ds)

\* parseFloat(num) * 1000: digits, then optionally a point and digits; NaN
\* when neither part has a digit. Fraction digits after the third (none
\* within MaxCountLen) are dropped.
parseFloatTimes1000(num) ==
    LET ip == LeadingDigits(num)
        rest == SubSeq(num, Len(ip) + 1, Len(num))
        fp == IF rest # <<>> /\ Head(rest) = "." THEN LeadingDigits(Tail(rest)) ELSE <<>>
        fp3 == SubSeq(fp \o <<"0", "0", "0">>, 1, 3)
    IN  IF ip = <<>> /\ fp = <<>> THEN NaN
        ELSE DecimalValue(ip) * 1000 + DecimalValue(fp3)

\* if (!t) return 0; num = t.replace(/[,K]/g, '');
\* if (t.includes('K')) return parseFloat(num) * 1000; return parseInt(num) || 0;
parseCount(t) ==
    IF t = NullText \/ t = <<>> THEN 0
    ELSE LET num == SelectSeq(t, LAMBDA c : c \notin {",", "K"})
         IN  IF \E i \in 1..Len(t) : t[i] = "K" THEN parseFloatTimes1000(num)
             ELSE IF parseInt(num) = NaN THEN 0 ELSE parseInt(num)

\* The copy inside processArticleList has the same body.
parseCountR(t) == parseCount(t)

CountTexts ==
    UNION {[1..n -> CountChars] : n \in 0..MaxCountLen}
        \cup {NullText, <<"1", ".", "2", "K">>, <<"3", ",", "4", "0", "0">>, <<"7", "M">>}

\* likeCount: parseCount(await elTextContent(likeEl)) on a root card.
CountRoot(t) ==
    lastCount' = [text |-> t, likeCount |-> parseCount(t), site |-> "parseCount", called |-> TRUE]

\* likeCount: parseCountR(await elTextContent(likeElR)) on a reply card.
CountReply(t) ==
    lastCount' = [text |-> t, likeCount |-> parseCountR(t), site |-> "parseCountR", called |-> TRUE]

CountFrame ==
    UNCHANGED <<harvestVars, coreLibVars, currentConfig, lastDelay, nav, browserVars, pace, listing, tour, snapshot>>

InitCount ==
    /\ EntryIdle
    /\ devRawCommentStore = <<>>
    /\ LibIdle

NextCount ==
    \/ (\E t \in CountTexts : CountRoot(t)) /\ CountFrame
    \/ (\E t \in CountTexts : CountReply(t)) /\ CountFrame

SpecCount == InitCount /\ [][NextCount]_vars

\* C29: everywhere the harvesters parse engagement counts, parseCount maps
\* "1.2K" to 1200, "3,400" to 3400, "7M" to 7000000, the empty string to 0
\* and null to 0.
C29_ParseCount ==
    lastCount.called =>
        /\ lastCount.text = <<"1", ".", "2", "K">> => lastCount.likeCount = 1200
        /\ lastCount.text = <<"3", ",", "4", "0", "0">> => lastCount.likeCount = 3400
        /\ lastCount.text = <<"7", "M">> => lastCount.likeCount = 7000000
        /\ lastCount.text = <<>> => lastCount.likeCount = 0
        /\ lastCount.text = NullText => lastCount.likeCount = 0


\* =========================================================================
\* smartFetch in a browser mode with the per-root cap maxRepliesPerTweet set
\* (the schema admits 0..300; 0 means no cap).
\* =========================================================================

MaxCap == 2    \* largest maxRepliesPerTweet of a run

InitCap ==
    /\ input \in {[NoInput EXCEPT !.username = u, !.maxTweets = n, !.preferredMethod = "puppeteer",
                                  !.maxRepliesPerTweet = cap] :
                     u \in {"", "u"}, n \in 1..MaxRoots, cap \in 1..MaxCap}
    /\ progressByUsername = [k \in Keys |-> NoProgress]
    /\ lastRead = [k \in Keys |-> NoBox]
    /\ devRawCommentStore = <<>>
    /\ orch = OrchIdle
    /\ hv = HvOff
    /\ ap = ApOff
    /\ persisted = <<>>
    /\ onTweetLog = <<>>
    /\ onReplyLog = <<>>
    /\ errorWritten = {}
    /\ lateWrites = FALSE
    /\ LibIdle

NextCap ==
    \/ SmartConfigFails
    \/ SmartStart
    \/ SmartTimeout
    \/ SmartHarvestSettled
    \/ AccountHarvester

SpecCap == InitCap /\ [][NextCap]_vars

\* C30: when maxRepliesPerTweet = M > 0, the account harvester emits at most
\* M replies for any single root post.
C30_CapPerRoot ==
    input.maxRepliesPerTweet > 0 =>
        \A root \in Ids :
            Cardinality({i \in 1..Len(onReplyLog) : onReplyLog[i].replyTo = root})
                <= input.maxRepliesPerTweet


\* =========================================================================
\* processArticleList on concrete cards: the id extractStatusIdFromArticle
\* returns for each card, the seen set, and the replies emitted.
\* =========================================================================

\* The id of the anchor that wraps the card's <time> element (NoId: none).
TimeId(card) == IF card.timeIdx # 0 THEN card.ids[card.timeIdx] ELSE NoId

\* const seenReplyIds = new Set([rootTweet.id]); allReplies = []
ListStart(rootId) ==
    /\ listing.pc = "off"
    /\ listing' = [ListingOff EXCEPT !.pc = "head", !.rootTweet = rootId,
                                     !.seenReplyIds = {rootId}]

\* A round calls processArticleList(replyElements, cutoffY).
ListRound ==
    /\ listing.pc = "head"
    /\ listing.rounds < MaxPasses
    /\ listing' = [listing EXCEPT !.pc = "cards", !.rounds = @ + 1]

\* One iteration of the loop for a card above the cut-off. `throws`: one of
\* the awaited reads after seenReplyIds.add(replyId) (el.$, textContent,
\* getAttribute on a card the page has re-rendered) rejects and the catch
\* around the iteration swallows it.
ListCard(card, throws) ==
    /\ listing.pc = "cards"
    /\ LET replyId == extractStatusIdFromArticle(card, listing.rootTweet)
       IN  IF replyId = NoId \/ replyId \in listing.seenReplyIds
           THEN UNCHANGED listing
           ELSE IF throws
           THEN listing' = [listing EXCEPT !.seenReplyIds = @ \cup {replyId}]
           ELSE listing' = [listing EXCEPT
                               !.seenReplyIds = @ \cup {replyId},
                               !.allReplies = Append(@, [id |-> replyId, card |-> card,
                                                         replyTo |-> listing.rootTweet])]

\* The loop over the cards is over.
ListRoundEnd ==
    /\ listing.pc = "cards"
    /\ listing' = [listing EXCEPT !.pc = "head"]

ListFrame ==
    UNCHANGED <<harvestVars, coreLibVars, currentConfig, lastDelay, nav, browserVars, pace,
                lastCount, tour, snapshot>>

InitList ==
    /\ EntryIdle
    /\ devRawCommentStore = <<>>
    /\ LibIdle

NextList ==
    \/ (\E rootId \in TweetIds : ListStart(rootId)) /\ ListFrame
    \/ ListRound /\ ListFrame
    \/ (\E card \in Cards, throws \in BOOLEAN : ListCard(card, throws)) /\ ListFrame
    \/ ListRoundEnd /\ ListFrame

SpecList == InitList /\ [][NextList]_vars

\* C31: during reply enumeration the root post's own card (the card whose
\* time-anchored status id is rootId) is never emitted as a reply, whatever
\* other status links (for example a quoted post) the card contains.
C31_RootCardNotEmitted ==
    \A i \in 1..Len(listing.allReplies) :
        TimeId(listing.allReplies[i].card) # listing.rootTweet

\* C32: in the single-post reply enumerator, at the end of every round the
\* seen set equals {rootId} together with exactly the ids emitted through
\* onReply: no id is marked seen without having been emitted.
C32_SeenIsEmitted ==
    listing.pc = "head" =>
        listing.seenReplyIds = {listing.rootTweet} \cup ReplyIds(listing.allReplies)


\* =========================================================================
\* The loop of scrapeUserComments over the collected root posts, with the
\* suspension between two posts. `tour.i` is the loop index (0-based),
\* `tour.waited` the betweenTweetsDelay suspension made since the previous
\* post was finished (0: none), `tour.failed` whether that post ended in the
\* catch block.
\* =========================================================================

MaxTourRoots == 3    \* root posts collected from the profile

\* for (let i = 0; i < tweets.length; i++)
TourStart(n) ==
    /\ tour.pc = "off"
    /\ tour' = [TourOff EXCEPT !.pc = "next", !.tweets = n]

\* Loop head with a post left: updateProgress, onTweet (its error is
\* swallowed), then page.goto of the post is called.
TourOnTweet ==
    /\ tour.pc = "next"
    /\ tour.i < tour.tweets
    /\ tour' = [tour EXCEPT !.pc = "goto"]

\* page.goto resolves or rejects; a rejection lands in the catch block.
TourGoto(ok) ==
    /\ tour.pc = "goto"
    /\ tour' = IF ok THEN [tour EXCEPT !.pc = "replies", !.waited = 0, !.failed = FALSE]
               ELSE [tour EXCEPT !.pc = "next", !.i = @ + 1, !.waited = 0, !.failed = TRUE]

\* hasReplyLoginWall(page): the harvester returns a failure.
TourLoginWall ==
    /\ tour.pc = "replies"
    /\ tour' = [tour EXCEPT !.pc = "returned"]

\* The reply loop of the post ends: normally, and then
\* `if (i < tweets.length - 1) await wait(currentConfig.betweenTweetsDelay)`,
\* or by an exception that lands in the catch block.
TourReplies(ok, delay) ==
    /\ tour.pc = "replies"
    /\ IF ok
       THEN IF tour.i < tour.tweets - 1
            THEN /\ delay \in getDelay(currentConfig, currentConfig.betweenTweetsDelay)
                 /\ tour' = [tour EXCEPT !.pc = "next", !.i = @ + 1, !.waited = delay]
            ELSE /\ delay = 0
                 /\ tour' = [tour EXCEPT !.pc = "next", !.i = @ + 1]
       ELSE /\ delay = 0
            /\ tour' = [tour EXCEPT !.pc = "next", !.i = @ + 1, !.failed = TRUE]

\* The loop is over: stage complete.
TourComplete ==
    /\ tour.pc = "next"
    /\ tour.i >= tour.tweets
    /\ tour' = [tour EXCEPT !.pc = "returned"]

TourFrame ==
    UNCHANGED <<harvestVars, coreLibVars, currentConfig, lastDelay, nav, browserVars, pace,
                lastCount, listing, snapshot>>

InitTour ==
    /\ EntryIdle
    /\ devRawCommentStore = <<>>
    /\ CoreLibIdle
    /\ currentConfig \in {DEFAULT_SCRAPE_CONFIG, [DEFAULT_SCRAPE_CONFIG EXCEPT !.randomDelay = FALSE]}
                             \cup {SCRAPE_PRESETS[preset] : preset \in DOMAIN SCRAPE_PRESETS}
    /\ lastDelay = NoDelay
    /\ NavIdle
    /\ BrowserIdle
    /\ EmitIdle

NextTour ==
    \/ (\E n \in 1..MaxTourRoots : TourStart(n)) /\ TourFrame
    \/ TourOnTweet /\ TourFrame
    \/ (\E ok \in BOOLEAN : TourGoto(ok)) /\ TourFrame
    \/ TourLoginWall /\ TourFrame
    \/ (\E ok \in BOOLEAN, delay \in 0..MaxDelay : TourReplies(ok, delay)) /\ TourFrame
    \/ TourComplete /\ TourFrame

SpecTour == InitTour /\ [][NextTour]_vars

\* C33: in the account harvester a betweenPostsDelay suspension occurs between
\* finishing one root post and navigating to the next on every path,
\* including when processing of the earlier root post failed with an error.
C33_PauseBetweenPosts ==
    (tour.pc = "goto" /\ tour.i > 0) => tour.waited >= currentConfig.betweenTweetsDelay


\* C34: within one run of scrapeByTweetId, complete and error are absorbing
\* progress stages: once the target's progress record has stage complete or
\* error, no later write of that run (a write of the fallback to the API
\* client included) changes its stage.
C34_TerminalStagesAbsorbing ==
    [][progressByUsername[TweetKey].stage \in {"complete", "error"}
          => progressByUsername'[TweetKey].stage = progressByUsername[TweetKey].stage]_vars


\* C35: whenever scrapeByTweetId returns success, by the browser path or by
\* the API path, the final progress record of the target has stage complete
\* and its repliesFound equals the reply count returned to the caller
\* (savedReplies of the API client, replies.length of the harvester, which is
\* the number of its onReply calls).
C35_SuccessProgress ==
    (orch.pc = "done" /\ orch.result.success) =>
        /\ progressByUsername[TweetKey].stage = "complete"
        /\ progressByUsername[TweetKey].repliesFound =
               IF orch.result.method = "apify" THEN ap.savedReplies ELSE Len(onReplyLog)


\* C36: after a root post has been persisted through the per-root callback,
\* the store holds a record recognised as that root (replyId = tweetId = the
\* root's id), even if the same id had earlier been persisted as a reply of
\* another root.
C36_RootRecognised ==
    (lastComment.replyId # NoId /\ lastComment.comment.tweetId = lastComment.replyId) =>
        \E i \in 1..Len(devRawCommentStore) :
            /\ devRawCommentStore[i].replyId = lastComment.replyId
            /\ devRawCommentStore[i].tweetId = lastComment.replyId

\* C37: the reply API client reports a run as failed only when the run
\* reached a terminal status other than SUCCEEDED or the poll budget was
\* exhausted (the status is still RUNNING after the last poll); a run observed
\* in a non-terminal status other than RUNNING, such as READY, is not
\* reported as failed.
C37_FailedOnlyWhenTerminal ==
    (ap.pc = "settled" /\ ap.result.error = "status") => ap.runStatus \in {"FAILED", "RUNNING"}


\* C38: a call of getBrowser either returns a connected browser instance or
\* throws; it never returns a cached instance that is disconnected, even when
\* every launch candidate fails.
C38_ReturnsConnected ==
    [][\A p \in Acquirers :
          (acq[p].pc # "done" /\ acq'[p].pc = "done")
              => (acq'[p].got # 0 /\ launched'[acq'[p].got].connected)]_vars


\* C39: removing a credential never causes another credential to be skipped
\* or served twice within the current rotation round: after removeAt(i), the
\* next next() returns the credential that was due before the removal (it has
\* moved one position down when i was before it), or its successor if the due
\* one was the one removed.
C39_RemovalKeepsDue ==
    (lastRingOp.op = "removeAt" /\ Len(nextLog) = 1 /\ Len(accountCookies) >= 2) =>
        nextLog[1].index =
            IF lastRingOp.removed < lastRingOp.index THEN lastRingOp.index - 1
            ELSE IF lastRingOp.index >= Len(accountCookies) THEN 0
            ELSE lastRingOp.index

\* =========================================================================
\* The start of scrapeUserComments on the credential ring: the bundle it
\* takes and the index its progress object reports.
\* =========================================================================

\* const useCookies = cookies || getNextAccountCookie();
\* const accountIndex = cookies ? 0 : getCurrentAccountIndex();
\* const totalAccounts = cookies ? 1 : Math.max(1, getAccountCount());
\* progress = {..., currentAccount: accountIndex, totalAccounts}
HarvestStart(cookies) ==
    IF cookies # ""
    THEN /\ snapshot' = [called |-> TRUE, fromRing |-> FALSE, used |-> 0, currentAccount |-> 0,
                          totalAccounts |-> 1]
         /\ UNCHANGED <<accountCookies, currentAccountIndex, nextLog, lastRingOp>>
    ELSE /\ getNextAccountCookie
         /\ snapshot' = [called |-> TRUE, fromRing |-> Len(accountCookies) > 0,
                          used |-> currentAccountIndex,
                          currentAccount |-> currentAccountIndex',
                          totalAccounts |-> IF Len(accountCookies) > 1 THEN Len(accountCookies)
                                            ELSE 1]

SnapshotFrame ==
    UNCHANGED <<harvestVars, devAnalyzedStore, now, lastComment, queryResult, scan,
                currentConfig, lastDelay, nav, browserVars, pace, lastCount, listing, tour>>

InitSnapshot ==
    /\ EntryIdle
    /\ devRawCommentStore = <<>>
    /\ LibIdle

NextSnapshot ==
    \/ (\E cookies \in SeqsUpTo(CookieInputs, MaxAccounts) : setAccountCookies(cookies))
           /\ RingFrame
    \/ (\E index \in 0..(MaxAccounts - 1) : removeAccountCookie(index)) /\ RingFrame
    \/ (\E cookies \in {"", "x"} : HarvestStart(cookies)) /\ SnapshotFrame

SpecSnapshot == InitSnapshot /\ [][NextSnapshot]_vars

\* C40: the currentAccount index reported in a run's progress equals the
\* ring position of the credential bundle that the run actually uses.
C40_ReportedIndexIsUsed ==
    (snapshot.called /\ snapshot.fromRing) => snapshot.currentAccount = snapshot.used
====
